---- MODULE Spec2Model ----
(***************************************************************************)
(* Model of the AI Housekeeping Advisor backend.  Cloud Functions variant:  *)
(*   backend/api-gateway/src/main.py        the Gateway   (api_gateway)    *)
(*   backend/image-processor/src/main.py    the Analyzer  (process_image)  *)
(*   backend/message-generator/src/main.py  the Generator (generate_message)*)
(* FastAPI variant (ai-housekeeping-advisor/backend):                      *)
(*   image-processor/deploy/src/main.py     the Analyzer  (process_image)  *)
(* One request is served at a time by one of the handlers.  Python         *)
(* values are tagged records, Python calls that may raise return a result  *)
(* record (Ret / Raise), and every blocking call to an upstream service or *)
(* provider is one step of the handler's state machine.                    *)
(***************************************************************************)
EXTENDS Integers, Sequences, FiniteSets, TLC

VARIABLES
    IMAGE_PROCESSOR_URL,    \* module constant read from the environment at import
    MESSAGE_GENERATOR_URL,  \* module constant read from the environment at import
    vision_client,          \* FastAPI image processor: the module's Vision client (PyNone
                            \* when its initialization at import failed)
    gemini_available,       \* FastAPI message generator: whether the module initialized
                            \* Vertex AI at import
    svc,                    \* the handler serving the current request
    pc,                     \* position of the handler in its code
    request,                \* the flask Request (method, Origin header, parsed JSON body)
    validation,             \* (is_valid, error_message) returned by validate_request
    scenario,               \* local of api_gateway / generate_message
    image_data,             \* local of api_gateway / process_image
    analysis_result,        \* local of api_gateway
    image_bytes,            \* local of process_image
    api_key,                \* local of process_image
    prompt,                 \* local of generate_message
    provider_reply,         \* what the vision / generative-text provider did (NotCalled before)
    analyzer_reply,         \* what requests.post to the Analyzer did (NotCalled before)
    generator_reply,        \* what requests.post to the Generator did (NotCalled before)
    calls,                  \* per-request counters of the calls the handler made
    sent,                   \* the HTTP requests the handler sent upstream, in order
    response,               \* the response the handler returned (NoResponse before)
    escaped                 \* the exception that left the handler (PyNone if none)

vars == <<IMAGE_PROCESSOR_URL, MESSAGE_GENERATOR_URL, vision_client, gemini_available,
          svc, pc, request, validation,
          scenario, image_data, analysis_result, image_bytes, api_key, prompt,
          provider_reply, analyzer_reply, generator_reply, calls, sent, response, escaped>>

\* the module constants, and the locals and upstream replies of each handler
config == <<IMAGE_PROCESSOR_URL, MESSAGE_GENERATOR_URL, vision_client, gemini_available>>
gatewayLocals == <<analyzer_reply, generator_reply, sent>>
analyzerLocals == <<image_bytes, api_key>>

----------------------------------------------------------------------------
(* Bounds of the model *)

\* number of distinct texts an upstream service may put in an error/advice
MaxTexts == 2

Texts == {"text" \o ToString(i) : i \in 1..MaxTexts}

----------------------------------------------------------------------------
(* Python values *)

PyNone == [t |-> "None"]
PyStr(s) == [t |-> "str", s |-> s]
PyBool(b) == [t |-> "bool", b |-> b]
PyInt(n) == [t |-> "int", n |-> n]
PyList(items) == [t |-> "list", items |-> items]
PyDict(d) == [t |-> "dict", d |-> d]
EmptyDict == PyDict([k \in {} |-> PyNone])

\* result of a Python call: a returned value or a raised exception
Ret(v) == [raised |-> FALSE, val |-> v]
Raise(cls, msg) == [raised |-> TRUE, exc |-> cls, msg |-> msg]

\* bool(v): Python truthiness
Truthy(v) ==
    CASE v.t = "None" -> FALSE
      [] v.t = "str"  -> v.s # ""
      [] v.t = "bool" -> v.b
      [] v.t = "int"  -> v.n # 0
      [] v.t = "list" -> v.items # <<>>
      [] v.t = "dict" -> DOMAIN v.d # {}

\* t is a substring of s
IsSubstring(t, s) ==
    \E i \in 1..(Len(s) - Len(t) + 1) : SubSeq(s, i, i + Len(t) - 1) = t

\* str(v) / f"{v}" for the values the handlers format
PyFormat(v) ==
    CASE v.t = "None" -> "None"
      [] v.t = "str"  -> v.s
      [] v.t = "bool" -> IF v.b THEN "True" ELSE "False"
      [] v.t = "int"  -> ToString(v.n)

\* Python type name, as it appears in TypeError messages
TypeName(v) == IF v.t = "None" THEN "NoneType" ELSE v.t

\* `key in container` for a string key
PyContains(container, key) ==
    CASE container.t = "dict" -> Ret(key \in DOMAIN container.d)
      [] container.t = "list" ->
            Ret(\E i \in 1..Len(container.items) : container.items[i] = PyStr(key))
      [] container.t = "str"  -> Ret(IsSubstring(key, container.s))
      [] OTHER -> Raise("TypeError",
                        "argument of type '" \o TypeName(container) \o "' is not iterable")

\* `container[key]` for a string key
PyGetItem(container, key) ==
    CASE container.t = "dict" ->
            IF key \in DOMAIN container.d THEN Ret(container.d[key])
            ELSE Raise("KeyError", "'" \o key \o "'")
      [] container.t = "list" ->
            Raise("TypeError", "list indices must be integers or slices, not str")
      [] container.t = "str"  ->
            Raise("TypeError", "string indices must be integers, not 'str'")
      [] OTHER -> Raise("TypeError",
                        "'" \o TypeName(container) \o "' object is not subscriptable")

\* `d.get(key, default)`; only dicts have .get
PyGet(container, key, default) ==
    IF container.t = "dict"
    THEN Ret(IF key \in DOMAIN container.d THEN container.d[key] ELSE default)
    ELSE Raise("AttributeError",
               "'" \o TypeName(container) \o "' object has no attribute 'get'")

\* `v in lst` for a list of strings: equality against each element, never raises
InStrList(v, lst) == v.t = "str" /\ \E i \in 1..Len(lst) : lst[i] = v.s

RECURSIVE Join(_, _)
\* sep.join(seq)
Join(sep, seq) ==
    IF seq = <<>> THEN ""
    ELSE IF Len(seq) = 1 THEN seq[1]
    ELSE seq[1] \o sep \o Join(sep, Tail(seq))

\* whether the exception class is caught by `except requests.RequestException`
IsRequestException(cls) ==
    cls \in {"requests.ConnectionError", "requests.Timeout", "requests.JSONDecodeError"}

----------------------------------------------------------------------------
(* Request validators (one per service) *)

\* api-gateway VALID_SCENARIOS
VALID_SCENARIOS == <<"plant", "closet", "fridge">>

\* the keys of PROMPT_TEMPLATES without the template of the fridge scenario
PROMPT_TEMPLATES_keys_without_fridge == <<"plant", "closet">>

\* the keys of message-generator PROMPT_TEMPLATES, in definition order
PROMPT_TEMPLATES_keys == <<"plant", "closet", "fridge">>

\* the (is_valid, error_message) tuple the validators return
Verdict(is_valid, error_message) ==
    [is_valid |-> is_valid, error_message |-> error_message]

MissingField(field) == PyStr("Missing '" \o field \o "' field in request")
EmptyField(field) == PyStr("Empty '" \o field \o "' field in request")

\* `x not in PROMPT_TEMPLATES`: a dict lookup, which hashes x
NotInPromptTemplates(x) ==
    IF x.t \in {"list", "dict"}
    THEN Raise("TypeError", "unhashable type: '" \o x.t \o "'")
    ELSE Ret(~InStrList(x, PROMPT_TEMPLATES_keys))

\* api-gateway validate_request with the two fields checked in the other order
gateway_validate_request_image_first(request_json) ==
    IF ~Truthy(request_json)
    THEN Ret(Verdict(FALSE, PyStr("Request body is empty")))
    ELSE LET has_image == PyContains(request_json, "image_data") IN
    IF has_image.raised THEN has_image
    ELSE IF ~has_image.val
    THEN Ret(Verdict(FALSE, MissingField("image_data")))
    ELSE LET img == PyGetItem(request_json, "image_data") IN
    IF img.raised THEN img
    ELSE IF ~Truthy(img.val)
    THEN Ret(Verdict(FALSE, EmptyField("image_data")))
    ELSE LET has_scenario == PyContains(request_json, "scenario") IN
    IF has_scenario.raised THEN has_scenario
    ELSE IF ~has_scenario.val
    THEN Ret(Verdict(FALSE, MissingField("scenario")))
    ELSE LET scen == PyGetItem(request_json, "scenario") IN
    IF scen.raised THEN scen
    ELSE IF ~InStrList(scen.val, VALID_SCENARIOS)
    THEN Ret(Verdict(FALSE, PyStr("Invalid 'scenario' value. Must be one of: "
                                   \o Join(", ", VALID_SCENARIOS))))
    ELSE Ret(Verdict(TRUE, PyNone))

\* api-gateway validate_request
gateway_validate_request(request_json) ==
    IF ~Truthy(request_json)
    THEN Ret(Verdict(FALSE, PyStr("Request body is empty")))
    ELSE LET has_scenario == PyContains(request_json, "scenario") IN
    IF has_scenario.raised THEN has_scenario
    ELSE IF ~has_scenario.val
    THEN Ret(Verdict(FALSE, MissingField("scenario")))
    ELSE LET scen == PyGetItem(request_json, "scenario") IN
    IF scen.raised THEN scen
    ELSE IF ~InStrList(scen.val, VALID_SCENARIOS)
    THEN Ret(Verdict(FALSE, PyStr("Invalid 'scenario' value. Must be one of: "
                                   \o Join(", ", VALID_SCENARIOS))))
    ELSE LET has_image == PyContains(request_json, "image_data") IN
    IF has_image.raised THEN has_image
    ELSE IF ~has_image.val
    THEN Ret(Verdict(FALSE, MissingField("image_data")))
    ELSE LET img == PyGetItem(request_json, "image_data") IN
    IF img.raised THEN img
    ELSE IF ~Truthy(img.val)
    THEN Ret(Verdict(FALSE, EmptyField("image_data")))
    ELSE Ret(Verdict(TRUE, PyNone))

\* image-processor validate_request
analyzer_validate_request(request_json) ==
    IF ~Truthy(request_json)
    THEN Ret(Verdict(FALSE, PyStr("Request body is empty")))
    ELSE LET has_image == PyContains(request_json, "image_data") IN
    IF has_image.raised THEN has_image
    ELSE IF ~has_image.val
    THEN Ret(Verdict(FALSE, MissingField("image_data")))
    ELSE LET img == PyGetItem(request_json, "image_data") IN
    IF img.raised THEN img
    ELSE IF ~Truthy(img.val)
    THEN Ret(Verdict(FALSE, EmptyField("image_data")))
    ELSE Ret(Verdict(TRUE, PyNone))

\* message-generator validate_request with the emptiness check after the scenario checks
generator_validate_request_fields_first(request_json) ==
    LET has_scenario == PyContains(request_json, "scenario") IN
    IF has_scenario.raised THEN has_scenario
    ELSE IF ~has_scenario.val
    THEN Ret(Verdict(FALSE, MissingField("scenario")))
    ELSE IF ~Truthy(request_json)
    THEN Ret(Verdict(FALSE, PyStr("Request body is empty")))
    ELSE LET scen == PyGetItem(request_json, "scenario") IN
    IF scen.raised THEN scen
    ELSE LET unknown == NotInPromptTemplates(scen.val) IN
    IF unknown.raised THEN unknown
    ELSE IF unknown.val
    THEN Ret(Verdict(FALSE, PyStr("Invalid scenario: " \o PyFormat(scen.val)
                                   \o ". Must be one of: "
                                   \o Join(", ", PROMPT_TEMPLATES_keys))))
    ELSE LET has_analysis == PyContains(request_json, "analysis_result") IN
    IF has_analysis.raised THEN has_analysis
    ELSE IF ~has_analysis.val
    THEN Ret(Verdict(FALSE, MissingField("analysis_result")))
    ELSE Ret(Verdict(TRUE, PyNone))

\* message-generator validate_request
generator_validate_request(request_json) ==
    IF ~Truthy(request_json)
    THEN Ret(Verdict(FALSE, PyStr("Request body is empty")))
    ELSE LET has_scenario == PyContains(request_json, "scenario") IN
    IF has_scenario.raised THEN has_scenario
    ELSE IF ~has_scenario.val
    THEN Ret(Verdict(FALSE, MissingField("scenario")))
    ELSE LET scen == PyGetItem(request_json, "scenario") IN
    IF scen.raised THEN scen
    ELSE LET unknown == NotInPromptTemplates(scen.val) IN
    IF unknown.raised THEN unknown
    ELSE IF unknown.val
    THEN Ret(Verdict(FALSE, PyStr("Invalid scenario: " \o PyFormat(scen.val)
                                   \o ". Must be one of: "
                                   \o Join(", ", PROMPT_TEMPLATES_keys))))
    ELSE LET has_analysis == PyContains(request_json, "analysis_result") IN
    IF has_analysis.raised THEN has_analysis
    ELSE IF ~has_analysis.val
    THEN Ret(Verdict(FALSE, MissingField("analysis_result")))
    ELSE Ret(Verdict(TRUE, PyNone))

----------------------------------------------------------------------------
(* HTTP plumbing: flask requests and responses, outcomes of requests.post *)

\* a flask Request: method, headers (header name -> value), parsed JSON body
\* (what get_json(silent=True) returns: PyNone when the body is absent or unparsable)
Request(method, headers, json) == [method |-> method, headers |-> headers, json |-> json]

NoHeaders == [h \in {} |-> ""]
NoRequest == [method |-> "none"]
NoResponse == [status_code |-> 0]

\* flask jsonify(d): a 200 response carrying the JSON document d
jsonify(d) ==
    [status_code |-> 200, headers |-> [h \in {"Content-Type"} |-> "application/json"],
     data |-> PyDict(d)]

\* flask make_response(body) / make_response((body, status)): body is a str or a Response
make_response(body) ==
    IF "t" \in DOMAIN body
    THEN [status_code |-> 200, headers |-> [h \in {"Content-Type"} |-> "text/html"],
          data |-> body]
    ELSE body
make_response_status(body, status_code) ==
    [make_response(body) EXCEPT !.status_code = status_code]

\* a response handed to handle_cors: a (data, status_code) tuple or a bare response
RespTuple(data, status_code) == [tuple |-> TRUE, data |-> data, status_code |-> status_code]
RespBare(data) == [tuple |-> FALSE, data |-> data]

\* the JSON document of an error answer
ErrorBody(error) == [success |-> PyBool(FALSE), error |-> error]

\* outcome of requests.post: an exception, or a response whose .json() is a result
NotCalled == [kind |-> "not_called"]
PostRaise(cls, msg) == [kind |-> "raise", exc |-> cls, msg |-> msg]
PostResponse(status_code, text, json) ==
    [kind |-> "response", status_code |-> status_code, text |-> text, json |-> json]

----------------------------------------------------------------------------
(* api-gateway helpers *)

\* the tuple call_image_processor returns
AnalyzerResult(success, result, error) ==
    [success |-> success, analysis_result |-> result, error |-> error]

\* the tuple call_message_generator returns
GeneratorResult(success, advice, error) ==
    [success |-> success, advice |-> advice, error |-> error]

\* api-gateway call_image_processor: the try block, lines 73-95
call_image_processor_try(post) ==
    IF post.kind = "raise" THEN Raise(post.exc, post.msg)
    ELSE IF post.status_code # 200
    THEN Ret(AnalyzerResult(FALSE, EmptyDict, PyStr("Image processor error: " \o post.text)))
    ELSE LET response_data == post.json IN
    IF response_data.raised THEN response_data
    ELSE LET success == PyGet(response_data.val, "success", PyBool(FALSE)) IN
    IF success.raised THEN success
    ELSE IF ~Truthy(success.val)
    THEN LET error_msg == PyGet(response_data.val, "error", PyStr("Unknown error")).val IN
         Ret(AnalyzerResult(FALSE, EmptyDict,
                            PyStr("Image processor error: " \o PyFormat(error_msg))))
    ELSE Ret(AnalyzerResult(TRUE, PyGet(response_data.val, "data", EmptyDict).val, PyNone))

\* call_image_processor without its except clause
call_image_processor_no_except(url, post) ==
    IF url = ""
    THEN Ret(AnalyzerResult(FALSE, EmptyDict, PyStr("Image processor URL not configured")))
    ELSE call_image_processor_try(post)

\* api-gateway call_image_processor; post is what requests.post does if it is reached
call_image_processor(url, post) ==
    IF url = ""
    THEN Ret(AnalyzerResult(FALSE, EmptyDict, PyStr("Image processor URL not configured")))
    ELSE LET r == call_image_processor_try(post) IN
         IF r.raised /\ IsRequestException(r.exc)
         THEN Ret(AnalyzerResult(FALSE, EmptyDict,
                     PyStr("Error communicating with image processor: " \o r.msg)))
         ELSE r

\* the try block of call_message_generator reading the advice under a wrong key
call_message_generator_try_wrong_key(post) ==
    IF post.kind = "raise" THEN Raise(post.exc, post.msg)
    ELSE IF post.status_code # 200
    THEN Ret(GeneratorResult(FALSE, PyStr(""),
                             PyStr("Message generator error: " \o post.text)))
    ELSE LET response_data == post.json IN
    IF response_data.raised THEN response_data
    ELSE LET success == PyGet(response_data.val, "success", PyBool(FALSE)) IN
    IF success.raised THEN success
    ELSE IF ~Truthy(success.val)
    THEN LET error_msg == PyGet(response_data.val, "error", PyStr("Unknown error")).val IN
         Ret(GeneratorResult(FALSE, PyStr(""),
                             PyStr("Message generator error: " \o PyFormat(error_msg))))
    ELSE Ret(GeneratorResult(TRUE, PyGet(response_data.val, "message", PyStr("")).val,
                             PyNone))

\* api-gateway call_message_generator: the try block, lines 121-146
call_message_generator_try(post) ==
    IF post.kind = "raise" THEN Raise(post.exc, post.msg)
    ELSE IF post.status_code # 200
    THEN Ret(GeneratorResult(FALSE, PyStr(""),
                             PyStr("Message generator error: " \o post.text)))
    ELSE LET response_data == post.json IN
    IF response_data.raised THEN response_data
    ELSE LET success == PyGet(response_data.val, "success", PyBool(FALSE)) IN
    IF success.raised THEN success
    ELSE IF ~Truthy(success.val)
    THEN LET error_msg == PyGet(response_data.val, "error", PyStr("Unknown error")).val IN
         Ret(GeneratorResult(FALSE, PyStr(""),
                             PyStr("Message generator error: " \o PyFormat(error_msg))))
    ELSE Ret(GeneratorResult(TRUE, PyGet(response_data.val, "advice", PyStr("")).val,
                             PyNone))

\* api-gateway call_message_generator; post is what requests.post does if it is reached
call_message_generator(url, post) ==
    IF url = ""
    THEN Ret(GeneratorResult(FALSE, PyStr(""),
                             PyStr("Message generator URL not configured")))
    ELSE LET r == call_message_generator_try(post) IN
         IF r.raised /\ IsRequestException(r.exc)
         THEN Ret(GeneratorResult(FALSE, PyStr(""),
                     PyStr("Error communicating with message generator: " \o r.msg)))
         ELSE r

\* the fixed CORS headers handle_cors sets, for a given origin
CorsHeaders(origin) ==
    [h \in {"Access-Control-Allow-Origin", "Access-Control-Allow-Methods",
            "Access-Control-Allow-Headers", "Access-Control-Allow-Credentials"} |->
        CASE h = "Access-Control-Allow-Origin" -> origin
          [] h = "Access-Control-Allow-Methods" -> "POST, OPTIONS"
          [] h = "Access-Control-Allow-Headers" -> "Content-Type, Authorization"
          [] h = "Access-Control-Allow-Credentials" -> "true"]

\* handle_cors answering with the wildcard origin whatever the request's Origin
handle_cors_wildcard(req, resp) ==
    LET made == IF resp.tuple THEN make_response_status(resp.data, resp.status_code)
                ELSE make_response(resp.data)
    IN  [made EXCEPT !.headers = CorsHeaders("*") @@ made.headers]

\* api-gateway handle_cors
handle_cors(req, resp) ==
    LET origin == IF "Origin" \in DOMAIN req.headers THEN req.headers["Origin"] ELSE "*"
        made == IF resp.tuple THEN make_response_status(resp.data, resp.status_code)
                ELSE make_response(resp.data)
    IN  [made EXCEPT !.headers = CorsHeaders(origin) @@ made.headers]

----------------------------------------------------------------------------
(* api-gateway api_gateway, cut at its blocking upstream calls *)

\* where a handler step leaves the handler
Done(resp) == [pc |-> "done", response |-> resp, escaped |-> PyNone]
Escape(exc) == [pc |-> "done", response |-> NoResponse,
                escaped |-> [exc |-> exc.exc, msg |-> exc.msg]]
Goto(next) == [pc |-> next, response |-> NoResponse, escaped |-> PyNone]

\* whether `except Exception` catches the class (everything but the BaseException-only ones)
IsException(cls) == cls \notin {"KeyboardInterrupt", "SystemExit", "GeneratorExit"}

\* the handler of the try block catching ValueError only
api_gateway_except_value_error(req, exc) ==
    IF exc.exc = "ValueError"
    THEN Done(handle_cors(req,
            RespTuple(jsonify(ErrorBody(PyStr("Internal server error: " \o exc.msg))), 500)))
    ELSE Escape(exc)

\* api_gateway lines 254-262: the handler of the try block
api_gateway_except(req, exc) ==
    IF IsException(exc.exc)
    THEN Done(handle_cors(req,
            RespTuple(jsonify(ErrorBody(PyStr("Internal server error: " \o exc.msg))), 500)))
    ELSE Escape(exc)

\* the method guard of api_gateway with the POST test before the OPTIONS test
api_gateway_method_post_first(req) ==
    IF req.method # "POST"
    THEN Done(handle_cors(req,
            RespTuple(jsonify(ErrorBody(PyStr("Only POST requests are supported"))), 405)))
    ELSE IF req.method = "OPTIONS"
    THEN Done(handle_cors(req, RespTuple(make_response(PyStr("")), 204)))
    ELSE Goto("validating")

\* api_gateway lines 191-204: the method guard
api_gateway_method(req) ==
    IF req.method = "OPTIONS"
    THEN Done(handle_cors(req, RespTuple(make_response(PyStr("")), 204)))
    ELSE IF req.method # "POST"
    THEN Done(handle_cors(req,
            RespTuple(jsonify(ErrorBody(PyStr("Only POST requests are supported"))), 405)))
    ELSE Goto("validating")

\* the validation step of api_gateway answering without the 400 status
api_gateway_validate_no_status(req) ==
    LET v == gateway_validate_request(req.json) IN
    IF v.raised THEN api_gateway_except(req, v)
    ELSE IF ~v.val.is_valid
    THEN Done(handle_cors(req, RespBare(jsonify(ErrorBody(v.val.error_message)))))
    ELSE Goto("calling_analyzer")

\* api_gateway lines 207-223: parse the body, validate it, read the two fields
api_gateway_validate(req) ==
    LET v == gateway_validate_request(req.json) IN
    IF v.raised THEN api_gateway_except(req, v)
    ELSE IF ~v.val.is_valid
    THEN Done(handle_cors(req, RespTuple(jsonify(ErrorBody(v.val.error_message)), 400)))
    ELSE Goto("calling_analyzer")

\* the Analyzer step of api_gateway going on to the Generator whatever the outcome
api_gateway_analyzer_ignore_failure(req, called) ==
    IF called.raised THEN api_gateway_except(req, called)
    ELSE Goto("calling_generator")

\* api_gateway lines 225-233: the Analyzer call and its failure branch
api_gateway_analyzer(req, called) ==
    IF called.raised THEN api_gateway_except(req, called)
    ELSE IF ~called.val.success
    THEN Done(handle_cors(req, RespTuple(jsonify(ErrorBody(called.val.error)), 502)))
    ELSE Goto("calling_generator")

\* the Generator step of api_gateway without its failure branch
api_gateway_generator_no_failure_branch(req, called) ==
    IF called.raised THEN api_gateway_except(req, called)
    ELSE Done(handle_cors(req,
            RespBare(jsonify([success |-> PyBool(TRUE), advice |-> called.val.advice]))))

\* api_gateway lines 235-252: the Generator call, its failure branch and the success answer
api_gateway_generator(req, called) ==
    IF called.raised THEN api_gateway_except(req, called)
    ELSE IF ~called.val.success
    THEN Done(handle_cors(req, RespTuple(jsonify(ErrorBody(called.val.error)), 502)))
    ELSE Done(handle_cors(req,
            RespBare(jsonify([success |-> PyBool(TRUE), advice |-> called.val.advice]))))

----------------------------------------------------------------------------
(* image-processor helpers *)

\* a float, kept in thousandths
PyFloat(milli) == [t |-> "float", milli |-> milli]

\* image-processor MIN_CONFIDENCE_SCORE (0.6), in thousandths
MIN_CONFIDENCE_SCORE == 600

\* round(x, 2) of a float kept in thousandths (the model draws no score ending in 5)
Round2(milli) == ((milli + 5) \div 10) * 10

B64Alphabet == "ABCDEFGHIJKLMNOPQRSTUVWXYZabcdefghijklmnopqrstuvwxyz0123456789+/"

\* the 6-bit value of a base64 character, 64 for a character outside the alphabet
B64Value(c) ==
    IF \E i \in 1..64 : SubSeq(B64Alphabet, i, i) = c
    THEN (CHOOSE i \in 1..64 : SubSeq(B64Alphabet, i, i) = c) - 1
    ELSE 64

RECURSIVE a2b_base64(_, _, _, _, _, _)
\* binascii.a2b_base64 in its default non-strict mode, as base64.b64decode calls it:
\* characters outside the alphabet are skipped, a completed pad sequence ends the
\* input, a dangling quad is an error.  out is the sequence of bytes decoded so far.
a2b_base64(s, i, quad_pos, leftchar, pads, out) ==
    IF i > Len(s)
    THEN IF quad_pos = 0 THEN Ret(out)
         ELSE IF quad_pos = 1
         THEN Raise("binascii.Error",
                    "Invalid base64-encoded string: number of data characters ("
                    \o ToString((Len(out) \div 3) * 4 + 1)
                    \o ") cannot be 1 more than a multiple of 4")
         ELSE Raise("binascii.Error", "Incorrect padding")
    ELSE LET c == SubSeq(s, i, i)
             this_ch == B64Value(c)
         IN IF c = "="
            THEN IF quad_pos >= 2 /\ quad_pos + pads + 1 >= 4
                 THEN Ret(out)
                 ELSE a2b_base64(s, i + 1, quad_pos, leftchar,
                                 IF quad_pos >= 2 THEN pads + 1 ELSE pads, out)
            ELSE IF this_ch = 64
            THEN a2b_base64(s, i + 1, quad_pos, leftchar, pads, out)
            ELSE CASE quad_pos = 0 -> a2b_base64(s, i + 1, 1, this_ch, 0, out)
                   [] quad_pos = 1 ->
                        a2b_base64(s, i + 1, 2, this_ch % 16, 0,
                                   Append(out, (leftchar * 4 + this_ch \div 16) % 256))
                   [] quad_pos = 2 ->
                        a2b_base64(s, i + 1, 3, this_ch % 4, 0,
                                   Append(out, (leftchar * 16 + this_ch \div 4) % 256))
                   [] quad_pos = 3 ->
                        a2b_base64(s, i + 1, 0, 0, 0,
                                   Append(out, (leftchar * 64 + this_ch) % 256))

\* base64.b64decode(v): an ASCII str is decoded, any other argument is a TypeError
b64decode(v) ==
    IF v.t = "str" THEN a2b_base64(v.s, 1, 0, 0, 0, <<>>)
    ELSE Raise("TypeError",
               "argument should be a bytes-like object or ASCII string, not '"
               \o TypeName(v) \o "'")

\* index of the first occurrence of t in s, 0 if none
Find(t, s) ==
    IF IsSubstring(t, s)
    THEN CHOOSE i \in 1..(Len(s) - Len(t) + 1) :
            /\ SubSeq(s, i, i + Len(t) - 1) = t
            /\ \A j \in 1..(i - 1) : SubSeq(s, j, j + Len(t) - 1) # t
    ELSE 0

\* s.split(sep)[1] when sep occurs in s: the text between the first and second occurrence
SplitSecond(s, sep) ==
    LET rest == SubSeq(s, Find(sep, s) + Len(sep), Len(s))
        nxt == Find(sep, rest)
    IN  IF nxt = 0 THEN rest ELSE SubSeq(rest, 1, nxt - 1)

\* image-processor decode_image
decode_image(data) ==
    LET has_prefix == PyContains(data, "base64,")
        stripped == IF has_prefix.val THEN PyStr(SplitSecond(data.s, "base64,")) ELSE data
        decoded == b64decode(stripped)
    IN  IF has_prefix.raised
        THEN Raise("ValueError", "Invalid image data: " \o has_prefix.msg)
        ELSE IF has_prefix.val /\ data.t # "str"
        THEN Raise("ValueError", "Invalid image data: '" \o TypeName(data)
                                  \o "' object has no attribute 'split'")
        ELSE IF decoded.raised
        THEN Raise("ValueError", "Invalid image data: " \o decoded.msg)
        ELSE decoded

\* outcome of the Secret Manager client: its construction and access_secret_version
SecretManager(client, access) == [client |-> client, access |-> access]

\* image-processor get_vision_api_key; env holds PROJECT_ID and GOOGLE_CLOUD_PROJECT
get_vision_api_key(env, sm) ==
    LET project_id == IF env.PROJECT_ID # "" THEN env.PROJECT_ID
                      ELSE env.GOOGLE_CLOUD_PROJECT
    IN  IF sm.client.raised THEN sm.client
        ELSE IF project_id = ""
        THEN Raise("ValueError", "Project ID not found in environment variables")
        ELSE sm.access

\* outcome of the Vision client: its construction and the three detection calls
Vision(client, labels, objects, texts) ==
    [client |-> client, labels |-> labels, objects |-> objects, texts |-> texts]

\* the annotations that pass the confidence threshold, scores rounded; name is the
\* key the description goes under ("description" for labels, "name" for objects)
FilterAnnotations(annotations, name) ==
    LET RECURSIVE keep(_)
        keep(seq) ==
            IF seq = <<>> THEN <<>>
            ELSE LET a == Head(seq)
                     item == [k \in {name, "score"} |->
                                IF k = "score" THEN PyFloat(Round2(a.score))
                                ELSE PyStr(a.text)]
                 IN  IF a.score >= MIN_CONFIDENCE_SCORE
                     THEN <<PyDict(item)>> \o keep(Tail(seq))
                     ELSE keep(Tail(seq))
    IN  keep(annotations)

\* image-processor analyze_image
analyze_image(vision) ==
    IF vision.client.raised THEN vision.client
    ELSE IF vision.labels.raised THEN vision.labels
    ELSE IF vision.objects.raised THEN vision.objects
    ELSE IF vision.texts.raised THEN vision.texts
    ELSE Ret(PyDict([labels |-> PyList(FilterAnnotations(vision.labels.val, "description")),
                     objects |-> PyList(FilterAnnotations(vision.objects.val, "name")),
                     text |-> PyStr(IF vision.texts.val # <<>>
                                    THEN vision.texts.val[1] ELSE "")]))

\* the JSON document process_image answers with
AnalyzerBody(success, data, error) ==
    [success |-> PyBool(success), data |-> data, error |-> error]

\* process_image lines 211-224: the handlers of the try block
process_image_except(exc) ==
    IF exc.exc = "ValueError"
    THEN Done(make_response_status(jsonify(AnalyzerBody(FALSE, PyNone, PyStr(exc.msg))), 400))
    ELSE IF IsException(exc.exc)
    THEN Done(make_response_status(
            jsonify(AnalyzerBody(FALSE, PyNone,
                                 PyStr("Internal server error: " \o exc.msg))), 500))
    ELSE Escape(exc)

\* the method guard of process_image letting OPTIONS through, as the Gateway's does
process_image_method_options(req) ==
    IF req.method = "OPTIONS"
    THEN Done(make_response_status(make_response(PyStr("")), 204))
    ELSE IF req.method # "POST"
    THEN Done(make_response_status(
            jsonify(AnalyzerBody(FALSE, PyNone, PyStr("Only POST requests are supported"))),
            405))
    ELSE Goto("validating")

\* process_image lines 180-186: the method guard
process_image_method(req) ==
    IF req.method # "POST"
    THEN Done(make_response_status(
            jsonify(AnalyzerBody(FALSE, PyNone, PyStr("Only POST requests are supported"))),
            405))
    ELSE Goto("validating")

\* process_image lines 189-201: parse the body, validate it, decode the image
process_image_validate(req) ==
    LET v == analyzer_validate_request(req.json) IN
    IF v.raised THEN process_image_except(v)
    ELSE IF ~v.val.is_valid
    THEN Done(make_response_status(
            jsonify(AnalyzerBody(FALSE, PyNone, v.val.error_message)), 400))
    ELSE LET decoded == decode_image(PyGetItem(req.json, "image_data").val) IN
         IF decoded.raised THEN process_image_except(decoded)
         ELSE Goto("retrieving_key")

\* process_image line 203
process_image_key(key) ==
    IF key.raised THEN process_image_except(key) ELSE Goto("calling_vision")

\* process_image lines 204-210
process_image_analyze(analysis) ==
    IF analysis.raised THEN process_image_except(analysis)
    ELSE Done(make_response(jsonify(AnalyzerBody(TRUE, analysis.val, PyNone))))

----------------------------------------------------------------------------
(* message-generator helpers.  The Japanese literals of the source (templates, *)
(* DEFAULT_ADVICE, "nashi") are written here by short ASCII stand-ins.         *)

\* message-generator DEFAULT_ADVICE
DEFAULT_ADVICE == "Sorry, no specific advice could be generated; general housekeeping tips: ..."

\* the expert-role preamble that opens PROMPT_TEMPLATES[scenario]
Preamble(s) ==
    CASE s = "plant"  -> "You are a plant care expert."
      [] s = "closet" -> "You are a storage and organizing expert."
      [] s = "fridge" -> "You are a food management and fridge organizing expert."

\* the numbered points and the closing instruction that end PROMPT_TEMPLATES[scenario]
FocusBlock(s) ==
    CASE s = "plant"  -> "Consider: plant kind and state, watering, problems, season, placement."
      [] s = "closet" -> "Consider: use of space, sorting, seasons, usability, habits."
      [] s = "fridge" -> "Consider: placement, freshness, food loss, cleanliness, recipes."

\* PROMPT_TEMPLATES[scenario].format(labels=..., objects=..., text=...)
FormatTemplate(s, labels, objects, text) ==
    Preamble(s) \o " Analysis: labels: " \o labels \o "; objects: " \o objects
        \o "; text: " \o text \o ". " \o FocusBlock(s) \o " Answer in at most 5 bullet points."

\* len(v)
PyLen(v) ==
    CASE v.t = "str"  -> Ret(Len(v.s))
      [] v.t = "list" -> Ret(Len(v.items))
      [] v.t = "dict" -> Ret(Cardinality(DOMAIN v.d))
      [] OTHER -> Raise("TypeError", "object of type '" \o TypeName(v) \o "' has no len()")

\* two decimal digits
Digits2(n) == IF n < 10 THEN "0" \o ToString(n) ELSE ToString(n)

\* f"{v:.2f}"
FormatFloat2(v) ==
    CASE v.t = "float" ->
            Ret(ToString(Round2(v.milli) \div 1000) \o "."
                \o Digits2((Round2(v.milli) % 1000) \div 10))
      [] v.t = "int" -> Ret(ToString(v.n) \o ".00")
      [] v.t = "bool" -> Ret(IF v.b THEN "1.00" ELSE "0.00")
      [] v.t = "str" -> Raise("ValueError", "Unknown format code 'f' for object of type 'str'")
      [] OTHER -> Raise("TypeError", "unsupported format string passed to "
                                     \o TypeName(v) \o ".__format__")

\* the elements a for-loop over v visits
PyIter(v) ==
    CASE v.t = "list" -> Ret(v.items)
      [] v.t = "str"  -> Ret([i \in 1..Len(v.s) |-> PyStr(SubSeq(v.s, i, i))])
      [] v.t = "dict" -> Ret([i \in 1..Cardinality(DOMAIN v.d) |-> PyStr("key")])
      [] OTHER -> Raise("TypeError", "'" \o TypeName(v) \o "' object is not iterable")

\* f"{item[name]} ({item['score']:.2f})"
FormatItem(item, name) ==
    LET what == PyGetItem(item, name)
        score == PyGetItem(item, "score")
        shown == FormatFloat2(score.val)
    IN  IF what.raised THEN what
        ELSE IF score.raised THEN score
        ELSE IF shown.raised THEN shown
        ELSE Ret(PyFormat(what.val) \o " (" \o shown.val \o ")")

RECURSIVE FormatItems(_, _)
\* [f"{item[name]} ({item['score']:.2f})" for item in items]
FormatItems(items, name) ==
    IF items = <<>> THEN Ret(<<>>)
    ELSE LET first == FormatItem(Head(items), name) IN
         IF first.raised THEN first
         ELSE LET rest == FormatItems(Tail(items), name) IN
              IF rest.raised THEN rest ELSE Ret(<<first.val>> \o rest.val)

\* format_analysis_result that builds the objects text from the labels
format_analysis_result_objects_from_labels(analysis) ==
    LET labels == PyGet(analysis, "labels", PyList(<<>>))
        labels_iter == PyIter(labels.val)
        labels_fmt == FormatItems(labels_iter.val, "description")
        text_str == PyGet(analysis, "text", PyStr("")).val
        labels_str == Join(", ", labels_fmt.val)
    IN  IF labels.raised THEN labels
        ELSE IF labels_iter.raised THEN labels_iter
        ELSE IF labels_fmt.raised THEN labels_fmt
        ELSE Ret([labels |-> IF labels_str # "" THEN labels_str ELSE "nashi",
                  objects |-> IF labels_str # "" THEN labels_str ELSE "nashi",
                  text |-> IF Truthy(text_str) THEN PyFormat(text_str) ELSE "nashi"])

\* message-generator format_analysis_result
format_analysis_result(analysis) ==
    LET labels == PyGet(analysis, "labels", PyList(<<>>))
        labels_iter == PyIter(labels.val)
        labels_fmt == FormatItems(labels_iter.val, "description")
        objects == PyGet(analysis, "objects", PyList(<<>>))
        objects_iter == PyIter(objects.val)
        objects_fmt == FormatItems(objects_iter.val, "name")
        text_str == PyGet(analysis, "text", PyStr("")).val
        labels_str == Join(", ", labels_fmt.val)
        objects_str == Join(", ", objects_fmt.val)
    IN  IF labels.raised THEN labels
        ELSE IF labels_iter.raised THEN labels_iter
        ELSE IF labels_fmt.raised THEN labels_fmt
        ELSE IF objects_iter.raised THEN objects_iter
        ELSE IF objects_fmt.raised THEN objects_fmt
        ELSE Ret([labels |-> IF labels_str # "" THEN labels_str ELSE "nashi",
                  objects |-> IF objects_str # "" THEN objects_str ELSE "nashi",
                  text |-> IF Truthy(text_str) THEN PyFormat(text_str) ELSE "nashi"])

\* message-generator construct_prompt
construct_prompt(scen, analysis) ==
    LET unknown == NotInPromptTemplates(scen)
        formatted_result == format_analysis_result(analysis)
    IN  IF unknown.raised THEN unknown
        ELSE IF unknown.val THEN Raise("ValueError", "Invalid scenario: " \o PyFormat(scen))
        ELSE IF formatted_result.raised THEN formatted_result
        ELSE Ret(FormatTemplate(scen.s, formatted_result.val.labels,
                                formatted_result.val.objects, formatted_result.val.text))

\* s.lower() on the letters the model's messages use
Lower(s) ==
    LET upper == "ABCDEFGHIJKLMNOPQRSTUVWXYZ"
        lower == "abcdefghijklmnopqrstuvwxyz"
        low(c) == IF \E i \in 1..26 : SubSeq(upper, i, i) = c
                  THEN LET i == CHOOSE i \in 1..26 : SubSeq(upper, i, i) = c
                       IN  SubSeq(lower, i, i)
                  ELSE c
        RECURSIVE go(_)
        go(i) == IF i > Len(s) THEN "" ELSE low(SubSeq(s, i, i)) \o go(i + 1)
    IN  go(1)

\* generate_advice that answers a provider failure without the default advice
generate_advice_no_default(gemini) ==
    IF ~gemini.raised THEN GeneratorResult(TRUE, gemini.val, PyNone)
    ELSE IF IsSubstring("safety", Lower(gemini.msg))
    THEN GeneratorResult(FALSE, PyNone,
                         PyStr("Content blocked due to safety settings: " \o gemini.msg))
    ELSE GeneratorResult(FALSE, PyNone,
                         PyStr("Error generating advice: " \o gemini.msg))

\* generate_advice that looks for 'safety' in the message as it is, letter case included
generate_advice_case_sensitive(gemini) ==
    IF ~gemini.raised THEN GeneratorResult(TRUE, gemini.val, PyNone)
    ELSE IF IsSubstring("safety", gemini.msg)
    THEN GeneratorResult(FALSE, PyStr(DEFAULT_ADVICE),
                         PyStr("Content blocked due to safety settings: " \o gemini.msg))
    ELSE GeneratorResult(FALSE, PyStr(DEFAULT_ADVICE),
                         PyStr("Error generating advice: " \o gemini.msg))

\* message-generator generate_advice; gemini is what the provider call does
generate_advice(gemini) ==
    IF ~gemini.raised THEN GeneratorResult(TRUE, gemini.val, PyNone)
    ELSE IF IsSubstring("safety", Lower(gemini.msg))
    THEN GeneratorResult(FALSE, PyStr(DEFAULT_ADVICE),
                         PyStr("Content blocked due to safety settings: " \o gemini.msg))
    ELSE GeneratorResult(FALSE, PyStr(DEFAULT_ADVICE),
                         PyStr("Error generating advice: " \o gemini.msg))

\* the JSON document generate_message answers with
GeneratorBody(success, advice, error) ==
    [success |-> PyBool(success), advice |-> advice, error |-> error]

\* generate_message lines 311-324: the handlers of the try block
generate_message_except(exc) ==
    IF exc.exc = "ValueError"
    THEN Done(make_response_status(
            jsonify(GeneratorBody(FALSE, PyStr(DEFAULT_ADVICE), PyStr(exc.msg))), 400))
    ELSE IF IsException(exc.exc)
    THEN Done(make_response_status(
            jsonify(GeneratorBody(FALSE, PyStr(DEFAULT_ADVICE),
                                  PyStr("Internal server error: " \o exc.msg))), 500))
    ELSE Escape(exc)

\* generate_message lines 270-276: the method guard
generate_message_method(req) ==
    IF req.method # "POST"
    THEN Done(make_response_status(
            jsonify(GeneratorBody(FALSE, PyNone, PyStr("Only POST requests are supported"))),
            405))
    ELSE Goto("validating")

\* generate_message lines 294-296: the summary that is logged
log_summary(analysis) ==
    LET labels == PyGet(analysis, "labels", PyList(<<>>))
        n_labels == PyLen(labels.val)
        n_objects == PyLen(PyGet(analysis, "objects", PyList(<<>>)).val)
        n_text == PyLen(PyGet(analysis, "text", PyStr("")).val)
    IN  IF labels.raised THEN labels
        ELSE IF n_labels.raised THEN n_labels
        ELSE IF n_objects.raised THEN n_objects
        ELSE IF n_text.raised THEN n_text
        ELSE Ret(PyNone)

\* generate_message lines 279-296: parse the body, validate it, log the summary
generate_message_validate(req) ==
    LET v == generator_validate_request(req.json) IN
    IF v.raised THEN generate_message_except(v)
    ELSE IF ~v.val.is_valid
    THEN Done(make_response_status(
            jsonify(GeneratorBody(FALSE, PyNone, v.val.error_message)), 400))
    ELSE LET logged == log_summary(PyGetItem(req.json, "analysis_result").val) IN
         IF logged.raised THEN generate_message_except(logged)
         ELSE Goto("initializing")

\* generate_message lines 298-302: credentials, Vertex AI initialization, the prompt;
\* init is what aiplatform.init() does
generate_message_prompt(init, made) ==
    IF init.raised THEN generate_message_except(init)
    ELSE IF made.raised THEN generate_message_except(made)
    ELSE Goto("calling_provider")

\* generate_message answering 500 when generate_advice reports a failure
generate_message_answer_500_on_failure(result) ==
    IF result.success
    THEN Done(make_response(
            jsonify([success |-> PyBool(result.success), advice |-> result.advice,
                     error |-> result.error])))
    ELSE Done(make_response_status(
            jsonify([success |-> PyBool(result.success), advice |-> result.advice,
                     error |-> result.error]), 500))

\* generate_message lines 304-310
generate_message_answer(result) ==
    Done(make_response(
        jsonify([success |-> PyBool(result.success), advice |-> result.advice,
                 error |-> result.error])))

----------------------------------------------------------------------------
(* The FastAPI image processor (ai-housekeeping-advisor/backend/image-processor) *)

\* the Vision client the module creates at import when the library is available
ImageAnnotatorClient == [t |-> "ImageAnnotatorClient"]

\* one label annotation of the provider's answer, as process_image copies it
fastapi_label(a) ==
    PyDict([description |-> PyStr(a.description), score |-> PyFloat(a.score),
            topicality |-> PyFloat(a.topicality)])

\* one localized object annotation of the provider's answer, as process_image copies it
fastapi_object(a) ==
    PyDict([name |-> PyStr(a.name), score |-> PyFloat(a.score),
            bounding_poly |-> PyList([i \in 1..Len(a.vertices) |->
                                        PyDict([x |-> PyFloat(a.vertices[i].x),
                                                y |-> PyFloat(a.vertices[i].y)])])])

\* one dominant color of the provider's answer, as process_image copies it
fastapi_color(c) ==
    PyDict([color |-> PyDict([red |-> PyInt(c.red), green |-> PyInt(c.green),
                              blue |-> PyInt(c.blue)]),
            score |-> PyFloat(c.score), pixel_fraction |-> PyFloat(c.pixel_fraction)])

\* the labels of the mock data
MockLabels ==
    LET l(d, s) == [description |-> d, score |-> s, topicality |-> s]
    IN  <<l("Kitchen", 950), l("Room", 920), l("Countertop", 880), l("Cabinetry", 850),
          l("Sink", 820), l("Appliance", 800), l("Clean", 750)>>

\* the objects of the mock data
MockObjects ==
    LET v(x, y) == [x |-> x, y |-> y]
    IN  <<[name |-> "Sink", score |-> 920,
           vertices |-> <<v(200, 300), v(400, 300), v(400, 500), v(200, 500)>>],
          [name |-> "Refrigerator", score |-> 890,
           vertices |-> <<v(600, 200), v(800, 200), v(800, 700), v(600, 700)>>],
          [name |-> "Oven", score |-> 850,
           vertices |-> <<v(100, 600), v(300, 600), v(300, 800), v(100, 800)>>]>>

\* the text of the mock data
MockText == "Kitchen with modern appliances"

\* the colors of the mock data
MockColors ==
    <<[red |-> 255, green |-> 255, blue |-> 255, score |-> 400, pixel_fraction |-> 300],
      [red |-> 200, green |-> 200, blue |-> 200, score |-> 300, pixel_fraction |-> 200],
      [red |-> 50, green |-> 50, blue |-> 50, score |-> 200, pixel_fraction |-> 100]>>

\* the provider's answer to annotate_image
Annotated(labels, objects, texts, colors) ==
    [label_annotations |-> labels, localized_object_annotations |-> objects,
     text_annotations |-> texts, colors |-> colors]

\* process_image environment_labels
environment_labels == {"kitchen", "bathroom", "bedroom", "living room", "dining room"}

\* process_image cleanliness_indicators, in definition order
cleanliness_indicators ==
    <<[level |-> "clean", indicators |-> {"clean", "tidy", "organized", "neat", "spotless"}],
      [level |-> "moderate", indicators |-> {"lived in", "used", "normal"}],
      [level |-> "dirty",
       indicators |-> {"dirty", "messy", "cluttered", "disorganized", "stained"}]>>

\* properties["environment_type"] comparing the labels without lowering their case
environment_type_case_sensitive(labels) ==
    LET hits == {i \in 1..Len(labels) : labels[i].d.description.s \in environment_labels}
    IN  IF hits = {} THEN "unknown"
        ELSE labels[CHOOSE i \in hits : \A j \in hits : i <= j].d.description.s

\* properties["environment_type"]: the first label that names an environment
environment_type(labels) ==
    LET hits == {i \in 1..Len(labels) :
                    Lower(labels[i].d.description.s) \in environment_labels}
    IN  IF hits = {} THEN "unknown"
        ELSE Lower(labels[CHOOSE i \in hits : \A j \in hits : i <= j].d.description.s)

\* properties["cleanliness_level"]: the first level one of whose indicators occurs in
\* a label
cleanliness_level(labels) ==
    LET matches(k) == \E i \in 1..Len(labels) :
                        \E ind \in cleanliness_indicators[k].indicators :
                            IsSubstring(ind, Lower(labels[i].d.description.s))
        hits == {k \in 1..Len(cleanliness_indicators) : matches(k)}
    IN  IF hits = {} THEN "unknown"
        ELSE cleanliness_indicators[CHOOSE k \in hits : \A j \in hits : k <= j].level

\* properties["organization_level"], from the number of objects
organization_level(objects) ==
    IF Len(objects) > 10 THEN "cluttered"
    ELSE IF Len(objects) > 5 THEN "moderate"
    ELSE "minimal"

\* the JSON answer FastAPI sends: a returned model (200) or an HTTPException
JSONResponse(status_code, d) ==
    [status_code |-> status_code,
     headers |-> [h \in {"Content-Type"} |-> "application/json"], data |-> PyDict(d)]

\* the ImageAnalysisResponse built from what was collected
ImageAnalysisResponse(labels, objects, text, colors) ==
    [labels |-> PyList(labels), objects |-> PyList(objects), text |-> text,
     colors |-> PyList(colors),
     properties |-> PyDict([environment_type |-> PyStr(environment_type(labels)),
                            cleanliness_level |-> PyStr(cleanliness_level(labels)),
                            organization_level |-> PyStr(organization_level(objects))])]

\* FastAPI image processor process_image; client is the module's vision_client and
\* annotated is what vision_client.annotate_image does
fastapi_process_image(client, annotated) ==
    IF client = PyNone
    THEN JSONResponse(200, ImageAnalysisResponse(
            [i \in 1..Len(MockLabels) |-> fastapi_label(MockLabels[i])],
            [i \in 1..Len(MockObjects) |-> fastapi_object(MockObjects[i])],
            PyStr(MockText),
            [i \in 1..Len(MockColors) |-> fastapi_color(MockColors[i])]))
    ELSE IF annotated.raised
    THEN JSONResponse(500, [detail |-> PyStr("Error processing image")])
    ELSE LET r == annotated.val IN
         JSONResponse(200, ImageAnalysisResponse(
            [i \in 1..Len(r.label_annotations) |-> fastapi_label(r.label_annotations[i])],
            [i \in 1..Len(r.localized_object_annotations) |->
                fastapi_object(r.localized_object_annotations[i])],
            IF r.text_annotations # <<>> THEN PyStr(r.text_annotations[1]) ELSE PyNone,
            [i \in 1..Len(r.colors) |-> fastapi_color(r.colors[i])]))

----------------------------------------------------------------------------
(* The FastAPI API gateway (ai-housekeeping-advisor/backend/api-gateway) *)

\* whether `except httpx.RequestError` catches the class
IsHttpxRequestError(cls) ==
    cls \in {"httpx.ConnectError", "httpx.ReadTimeout", "httpx.UnsupportedProtocol"}

\* raise HTTPException(status_code=..., detail=...)
HTTPException(status_code, detail) ==
    [raised |-> TRUE, exc |-> "HTTPException", msg |-> detail, status_code |-> status_code]

\* the advice text analyze_image substitutes when a service cannot be reached
MOCK_ADVICE == "Based on the image of your kitchen, here are some practical housekeeping tips: ..."

\* the image analysis analyze_image substitutes when a service cannot be reached
MOCK_IMAGE_ANALYSIS ==
    LET l(d, s) == PyDict([description |-> PyStr(d), score |-> PyFloat(s),
                           topicality |-> PyFloat(s)])
        o(n, s) == PyDict([name |-> PyStr(n), score |-> PyFloat(s)])
        c(v, s, f) == PyDict([color |-> PyDict([red |-> PyInt(v), green |-> PyInt(v),
                                                blue |-> PyInt(v)]),
                              score |-> PyFloat(s), pixel_fraction |-> PyFloat(f)])
    IN  PyDict([labels |-> PyList(<<l("Kitchen", 950), l("Room", 920),
                                    l("Countertop", 880)>>),
                objects |-> PyList(<<o("Sink", 920), o("Refrigerator", 890),
                                     o("Oven", 850)>>),
                colors |-> PyList(<<c(255, 900, 300), c(200, 700, 200)>>),
                properties |-> PyDict([environment_type |-> PyStr("kitchen"),
                                       cleanliness_level |-> PyStr("moderate"),
                                       organization_level |-> PyStr("moderate")])])

\* AdviceResponse(advice=..., image_analysis=...): pydantic validates the two fields
AdviceResponse(advice, image_analysis) ==
    IF advice.t # "str"
    THEN Raise("ValidationError", "advice: str type expected")
    ELSE IF image_analysis.t # "dict"
    THEN Raise("ValidationError", "image_analysis: value is not a valid dict")
    ELSE Ret([advice |-> advice, image_analysis |-> image_analysis])

\* what FastAPI answers for an HTTPException that leaves the endpoint
HTTPExceptionResponse(status_code, detail) ==
    JSONResponse(status_code, [detail |-> PyStr(detail)])

\* the handlers of analyze_image's try block without the httpx.RequestError handler
fastapi_analyze_image_except_no_mock(exc) ==
    IF IsException(exc.exc)
    THEN Done(HTTPExceptionResponse(500, "Internal server error"))
    ELSE Escape(exc)

\* analyze_image lines 111-155: the handlers of the try block
fastapi_analyze_image_except(exc) ==
    IF IsHttpxRequestError(exc.exc)
    THEN Done(JSONResponse(200, AdviceResponse(PyStr(MOCK_ADVICE), MOCK_IMAGE_ANALYSIS).val))
    ELSE IF IsException(exc.exc)
    THEN Done(HTTPExceptionResponse(500, "Internal server error"))
    ELSE Escape(exc)

\* analyze_image lines 69-85: the Analyzer call; post is what client.post does
fastapi_analyze_image_analyzer(post) ==
    IF post.kind = "raise" THEN fastapi_analyze_image_except(Raise(post.exc, post.msg))
    ELSE IF post.status_code # 200
    THEN fastapi_analyze_image_except(HTTPException(post.status_code,
                                                    "Error processing image"))
    ELSE IF post.json.raised THEN fastapi_analyze_image_except(post.json)
    ELSE Goto("calling_generator")

\* analyze_image lines 87-109: the Generator call and the answer
fastapi_analyze_image_generator(image_analysis, post) ==
    IF post.kind = "raise" THEN fastapi_analyze_image_except(Raise(post.exc, post.msg))
    ELSE IF post.status_code # 200
    THEN fastapi_analyze_image_except(HTTPException(post.status_code,
                                                    "Error generating advice"))
    ELSE LET advice_data == post.json IN
    IF advice_data.raised THEN fastapi_analyze_image_except(advice_data)
    ELSE LET advice == PyGetItem(advice_data.val, "advice") IN
    IF advice.raised THEN fastapi_analyze_image_except(advice)
    ELSE LET answer == AdviceResponse(advice.val, image_analysis) IN
    IF answer.raised THEN fastapi_analyze_image_except(answer)
    ELSE Done(JSONResponse(200, answer.val))

----------------------------------------------------------------------------
(* The FastAPI message generator (ai-housekeeping-advisor/backend/message-generator) *)

\* [item[key] for item in items[:n]] followed by ', '.join of the result
JoinedField(items, key, n) ==
    IF items.t # "list"
    THEN Raise("TypeError", "unhashable type: 'slice'")
    ELSE LET top == SubSeq(items.items, 1, IF Len(items.items) < n THEN Len(items.items) ELSE n)
             bad == {i \in 1..Len(top) : PyGetItem(top[i], key).raised}
             odd == {i \in 1..Len(top) : PyGetItem(top[i], key).val.t # "str"}
         IN  IF bad # {} THEN PyGetItem(top[CHOOSE i \in bad : \A j \in bad : i <= j], key)
             ELSE IF odd # {}
             THEN Raise("TypeError", "sequence item: expected str instance")
             ELSE Ret(Join(", ", [i \in 1..Len(top) |-> PyGetItem(top[i], key).val.s]))

\* the focus block _construct_prompt appends for the environment type
FastApiFocusBlock(env) ==
    CASE env = PyStr("kitchen") -> " Focus on: 1. Food safety and hygiene ..."
      [] env = PyStr("bathroom") -> " Focus on: 1. Hygiene and sanitation ..."
      [] env = PyStr("bedroom") -> " Focus on: 1. Organization and decluttering ..."
      [] env = PyStr("living room") -> " Focus on: 1. Dust control and air quality ..."
      [] OTHER -> ""

\* message-generator _construct_prompt
fastapi_construct_prompt(labels, objects, text, properties, context) ==
    LET env == PyGet(properties, "environment_type", PyStr("unknown"))
        clean == PyGet(properties, "cleanliness_level", PyStr("unknown"))
        org == PyGet(properties, "organization_level", PyStr("unknown"))
        top_labels == JoinedField(labels, "description", 5)
        top_objects == JoinedField(objects, "name", 10)
    IN  IF env.raised THEN env
        ELSE IF top_labels.raised THEN top_labels
        ELSE IF top_objects.raised THEN top_objects
        ELSE Ret("You are an expert housekeeping advisor. Image Analysis:"
                 \o " - Environment Type: " \o PyFormat(env.val)
                 \o " - Cleanliness Level: " \o PyFormat(clean.val)
                 \o " - Organization Level: " \o PyFormat(org.val)
                 \o " - Key Items Detected: " \o top_objects.val
                 \o " - Key Features: " \o top_labels.val
                 \o (IF Truthy(text) THEN " - Text Visible in Image: " \o PyFormat(text)
                     ELSE "")
                 \o (IF Truthy(context)
                     THEN " Additional Context from User: " \o PyFormat(context) ELSE "")
                 \o FastApiFocusBlock(env.val)
                 \o " Provide your advice in a friendly, conversational tone.")

\* the mock advice generate_advice picks by environment type
FastApiMockAdvice(env) ==
    CASE env = PyStr("kitchen") ->
            "Based on the image of your kitchen, here are some practical housekeeping tips: ..."
      [] env = PyStr("bathroom") ->
            "Looking at your bathroom, here are some targeted housekeeping recommendations: ..."
      [] env = PyStr("bedroom") ->
            "Based on your bedroom image, here are some practical housekeeping suggestions: ..."
      [] OTHER ->
            "Based on the image of your home environment, here are some practical housekeeping recommendations: ..."

\* message-generator generate_advice (POST /generate); available is the module's
\* gemini_available and generated is what model.generate_content does if it is reached
fastapi_generate_advice(req, available, generated) ==
    LET labels == PyGet(req.image_analysis, "labels", PyList(<<>>)).val
        objects == PyGet(req.image_analysis, "objects", PyList(<<>>)).val
        text == PyGet(req.image_analysis, "text", PyStr("")).val
        properties == PyGet(req.image_analysis, "properties", EmptyDict).val
        made == fastapi_construct_prompt(labels, objects, text, properties, req.context)
    IN  IF made.raised
        THEN HTTPExceptionResponse(500, "Error generating advice")
        ELSE IF available /\ ~generated.raised
        THEN JSONResponse(200, [advice |-> generated.val])
        ELSE JSONResponse(200,
                [advice |-> PyStr(FastApiMockAdvice(
                                PyGet(properties, "environment_type", PyStr("unknown")).val))])

----------------------------------------------------------------------------
(* Inputs *)

\* bound on the number of label (and of object) annotations the vision provider returns
MaxAnnotations == 2

Methods == {"POST", "OPTIONS", "GET", "PUT"}

HeaderSets == {NoHeaders, [h \in {"Origin"} |-> "http://localhost:5173"]}

\* JSON objects over the given keys, each key absent or bound to one of its values
ObjectsOf(keys, values(_)) ==
    {PyDict(d) : d \in UNION {{f \in [present -> UNION {values(k) : k \in present}] :
                                  \A k \in present : f[k] \in values(k)} :
                              present \in SUBSET keys}}

\* an analysis result as the Analyzer produces it
SampleAnalysis ==
    PyDict([labels |-> PyList(<<PyDict([description |-> PyStr("Plant"),
                                        score |-> PyFloat(950)])>>),
            objects |-> PyList(<<PyDict([name |-> PyStr("Flower pot"),
                                         score |-> PyFloat(800)])>>),
            text |-> PyStr("Care")])

\* an analysis result with two labels, two objects and no text
TwoItemAnalysis ==
    PyDict([labels |-> PyList(<<PyDict([description |-> PyStr("Plant"),
                                        score |-> PyFloat(950)]),
                                PyDict([description |-> PyStr("Leaf"),
                                        score |-> PyFloat(600)])>>),
            objects |-> PyList(<<PyDict([name |-> PyStr("Flower pot"),
                                         score |-> PyFloat(800)]),
                                 PyDict([name |-> PyStr("Shelf"),
                                         score |-> PyFloat(750)])>>),
            text |-> PyStr("")])

\* the values a field of a Gateway request takes in the model
GatewayFieldValues(k) ==
    CASE k = "scenario" ->
            {PyStr("plant"), PyStr("fridge"), PyStr("garden"), PyList(<<PyStr("plant")>>)}
      [] k = "image_data" -> {PyStr("aGk="), PyStr(""), PyNone}

\* the values a field of an Analyzer request takes in the model
AnalyzerFieldValues(k) ==
    CASE k = "image_data" ->
            {PyStr("YQ=="), PyStr("data:image/jpeg;base64,YQ=="),
             PyStr("data:a;base64,b;base64,YQ=="),
             PyStr("YQ="), PyStr("Y"), PyStr("!!!!"), PyStr(""), PyNone, PyInt(7)}

\* the values a field of a Generator request takes in the model
GeneratorFieldValues(k) ==
    CASE k = "scenario" ->
            {PyStr("plant"), PyStr("closet"), PyStr("garden"), PyList(<<PyStr("plant")>>)}
      [] k = "analysis_result" ->
            {EmptyDict, SampleAnalysis, TwoItemAnalysis, PyNone,
             PyDict([labels |-> PyNone]),
             PyDict([labels |-> PyList(<<PyDict([description |-> PyStr("Plant"),
                                                 score |-> PyStr("high")])>>)])}

\* bodies that are not JSON objects: absent/unparsable, a number, strings, arrays
NonObjectBodies ==
    {PyNone, PyInt(5), PyStr("scenario"), PyList(<<>>), PyList(<<PyStr("scenario")>>)}

\* a JSON object that holds none of the required fields, only an optional one
ContextOnly == PyDict([context |-> PyStr("living room")])

GatewayBodies ==
    ObjectsOf({"scenario", "image_data"}, GatewayFieldValues)
        \cup NonObjectBodies \cup {ContextOnly}
AnalyzerBodies ==
    ObjectsOf({"image_data"}, AnalyzerFieldValues) \cup NonObjectBodies \cup {ContextOnly}
GeneratorBodies ==
    ObjectsOf({"scenario", "analysis_result"}, GeneratorFieldValues)
        \cup NonObjectBodies \cup {ContextOnly}

\* the values a field of an upstream JSON answer takes in the model
ReplyValues(k) ==
    CASE k = "success" -> {PyBool(TRUE), PyBool(FALSE)}
      [] k = "error" -> {PyNone} \cup {PyStr(t) : t \in Texts}
      [] k = "data" -> {PyNone, SampleAnalysis}
      [] k = "advice" -> {PyNone, PyStr("")} \cup {PyStr(t) : t \in Texts}

\* what requests.post to an upstream can do; payload is the key of the answer's payload
Posts(payload) ==
    {PostRaise(cls, msg) :
        cls \in {"requests.ConnectionError", "requests.Timeout", "Exception"}, msg \in Texts}
    \cup {PostResponse(st, t, Raise("requests.JSONDecodeError", "Expecting value")) :
            st \in {201, 400, 500}, t \in Texts}
    \cup {PostResponse(201, "{...}",
                        Ret(PyDict([k \in {"success", payload} |->
                                CASE k = "success" -> PyBool(TRUE)
                                  [] k = "data" -> SampleAnalysis
                                  [] k = "advice" -> PyStr("text1")])))}
    \cup {PostResponse(200, "not json", Raise(cls, "Expecting value")) :
            cls \in {"requests.JSONDecodeError", "ValueError"}}
    \cup {PostResponse(200, "[]", Ret(PyList(<<>>)))}
    \cup (IF payload = "advice"
          THEN {PostResponse(200, "{...}",
                    Ret(PyDict(GeneratorBody(FALSE, PyStr(DEFAULT_ADVICE),
                                             PyStr("Error generating advice: text1")))))}
          ELSE {})
    \cup {PostResponse(200, "{...}", Ret(o)) :
            o \in ObjectsOf({"success", "error", payload}, ReplyValues)}

\* the environment get_vision_api_key reads
Environments == [PROJECT_ID : {"", "proj"}, GOOGLE_CLOUD_PROJECT : {"", "gproj"}]

\* what the Secret Manager client can do
SecretManagers ==
    {SecretManager(Raise("DefaultCredentialsError", "no credentials"), Ret(PyStr("key"))),
     SecretManager(Ret(PyNone), Raise("PermissionDenied", "403 denied")),
     SecretManager(Ret(PyNone), Ret(PyStr("key")))}

\* sequences of at most n elements of S
SeqsUpTo(S, n) == UNION {[1..k -> S] : k \in 0..n}

\* annotations of the vision provider, scores in thousandths
Annotations == {[text |-> "Plant", score |-> 950], [text |-> "Leaf", score |-> 600],
                [text |-> "Blur", score |-> 599]}

\* what the Vision client can do
Visions ==
    {Vision(Raise("DefaultCredentialsError", "no credentials"), Ret(<<>>), Ret(<<>>), Ret(<<>>)),
     Vision(Ret(PyNone), Raise("ServiceUnavailable", "503 unavailable"), Ret(<<>>), Ret(<<>>)),
     Vision(Ret(PyNone), Ret(<<>>), Raise("ValueError", "bad image"), Ret(<<>>)),
     Vision(Ret(PyNone), Ret(<<>>), Ret(<<>>), Raise("DeadlineExceeded", "504 deadline"))}
    \cup {Vision(Ret(PyNone), Ret(l), Ret(o), Ret(t)) :
            l \in SeqsUpTo(Annotations, MaxAnnotations),
            o \in SeqsUpTo({a \in Annotations : a.text # "Leaf"}, MaxAnnotations),
            t \in {<<>>, <<"Care", "Care">>}}

\* what aiplatform.init() can do
VertexInits ==
    {Ret(PyNone), Raise("DefaultCredentialsError", "no credentials"),
     Raise("ValueError", "unsupported region")}

\* what the generative-text provider call can do
Geminis ==
    {Ret(PyStr(t)) : t \in Texts}
    \cup {Raise("ResourceExhausted", "429 quota exceeded"),
          Raise("ValueError", "Response blocked by SAFETY filters"),
          Raise("Exception", "blocked by safety settings")}

\* the image files uploaded to the FastAPI image processor (their bytes)
Uploads == {<<104, 105>>, <<>>}

\* label annotations the provider gives the FastAPI image processor, thousandths
FastApiLabels ==
    {[description |-> "Kitchen", score |-> 950, topicality |-> 900],
     [description |-> "Messy room", score |-> 599, topicality |-> 500]}

\* object annotations the provider gives the FastAPI image processor
FastApiObjects ==
    {[name |-> "Sink", score |-> 920, vertices |-> <<[x |-> 200, y |-> 300]>>],
     [name |-> "Cup", score |-> 300, vertices |-> <<>>]}

\* dominant colors the provider gives the FastAPI image processor
FastApiColors ==
    {<<>>, <<[red |-> 10, green |-> 20, blue |-> 30, score |-> 400, pixel_fraction |-> 300]>>}

\* what vision_client.annotate_image can do
AnnotateOutcomes ==
    {Raise("ServiceUnavailable", "503 unavailable")}
    \cup {Ret(Annotated(l, o, t, c)) :
            l \in SeqsUpTo(FastApiLabels, MaxAnnotations),
            o \in SeqsUpTo(FastApiObjects, MaxAnnotations),
            t \in {<<>>, <<"Care">>},
            c \in FastApiColors}

\* the optional context form field of a POST /analyze
Contexts == {PyNone, PyStr("after a party")}

\* an image analysis as the FastAPI image processor answers it
FastApiAnalysis ==
    PyDict([labels |-> PyList(<<PyDict([description |-> PyStr("Bathroom"),
                                        score |-> PyFloat(910),
                                        topicality |-> PyFloat(910)])>>),
            objects |-> PyList(<<>>),
            text |-> PyNone,
            colors |-> PyList(<<>>),
            properties |-> PyDict([environment_type |-> PyStr("bathroom"),
                                   cleanliness_level |-> PyStr("unknown"),
                                   organization_level |-> PyStr("minimal")])])

\* the JSON documents a service answers the FastAPI gateway with; payload names the
\* service
HttpxAnswers(payload) ==
    IF payload = "image_analysis"
    THEN {FastApiAnalysis, EmptyDict}
    ELSE {PyDict([advice |-> PyStr("text1")]), PyDict([advice |-> PyNone]),
          PyDict([detail |-> PyStr("text1")])}

\* what client.post of the FastAPI gateway can do once the URL has a protocol
HttpxPosts(payload) ==
    {PostRaise(cls, "All connection attempts failed") :
        cls \in {"httpx.ConnectError", "httpx.ReadTimeout", "httpx.InvalidURL"}}
    \cup {PostResponse(st, "{...}", Ret(PyDict([detail |-> PyStr("text1")]))) :
            st \in {201, 404, 500}}
    \cup {PostResponse(200, "not json", Raise("json.JSONDecodeError", "Expecting value"))}
    \cup {PostResponse(200, "{...}", Ret(o)) : o \in HttpxAnswers(payload)}

\* what client.post does for a URL that lacks its protocol
HttpxNoProtocol ==
    PostRaise("httpx.UnsupportedProtocol",
              "Request URL is missing an 'http://' or 'https://' protocol.")

\* the image analyses a POST /generate carries
GenerateAnalyses ==
    {FastApiAnalysis, MOCK_IMAGE_ANALYSIS, EmptyDict,
     PyDict([labels |-> PyList(<<PyDict([name |-> PyStr("Sink")])>>)])}

\* what model.generate_content of the FastAPI message generator can do
FastApiGeminis ==
    {Ret(PyStr("text1")), Raise("ResourceExhausted", "429 quota exceeded")}

NoCalls == [get_json |-> 0, validate_request |-> 0,
            call_image_processor |-> 0, call_message_generator |-> 0,
            decode_image |-> 0, get_vision_api_key |-> 0, analyze_image |-> 0,
            initialize_vertex_ai |-> 0, construct_prompt |-> 0, generate_advice |-> 0,
            annotate_image |-> 0]

----------------------------------------------------------------------------
(* The state machine *)

Init ==
    /\ IMAGE_PROCESSOR_URL \in {"", "http://image-processor-url"}
    /\ MESSAGE_GENERATOR_URL \in {"", "http://message-generator-url"}
    /\ vision_client \in {PyNone, ImageAnnotatorClient}
    /\ gemini_available \in BOOLEAN
    /\ svc = "none"
    /\ pc = "idle"
    /\ request = NoRequest
    /\ validation = PyNone
    /\ scenario = PyNone
    /\ image_data = PyNone
    /\ analysis_result = PyNone
    /\ image_bytes = PyNone
    /\ api_key = PyNone
    /\ prompt = PyNone
    /\ provider_reply = NotCalled
    /\ analyzer_reply = NotCalled
    /\ generator_reply = NotCalled
    /\ calls = NoCalls
    /\ sent = <<>>
    /\ response = NoResponse
    /\ escaped = PyNone

\* the framework invokes a handler with a new request
Receive(service, method, headers, body) ==
    /\ pc = "idle"
    /\ svc' = service
    /\ pc' = "method_check"
    /\ request' = Request(method, headers, body)
    /\ validation' = PyNone
    /\ scenario' = PyNone
    /\ image_data' = PyNone
    /\ analysis_result' = PyNone
    /\ image_bytes' = PyNone
    /\ api_key' = PyNone
    /\ prompt' = PyNone
    /\ provider_reply' = NotCalled
    /\ analyzer_reply' = NotCalled
    /\ generator_reply' = NotCalled
    /\ calls' = NoCalls
    /\ sent' = <<>>
    /\ response' = NoResponse
    /\ escaped' = PyNone
    /\ UNCHANGED config

\* the handler has returned: the framework delivers the response (or the exception)
\* and the invocation's frame, locals included, is gone
Deliver ==
    /\ pc = "done"
    /\ svc' = "none"
    /\ pc' = "idle"
    /\ request' = NoRequest
    /\ validation' = PyNone
    /\ scenario' = PyNone
    /\ image_data' = PyNone
    /\ analysis_result' = PyNone
    /\ image_bytes' = PyNone
    /\ api_key' = PyNone
    /\ prompt' = PyNone
    /\ provider_reply' = NotCalled
    /\ analyzer_reply' = NotCalled
    /\ generator_reply' = NotCalled
    /\ calls' = NoCalls
    /\ sent' = <<>>
    /\ response' = NoResponse
    /\ escaped' = PyNone
    /\ UNCHANGED config

\* leave the handler step as the step says
Leave(step) ==
    /\ pc' = step.pc
    /\ response' = step.response
    /\ escaped' = step.escaped

(* Gateway *)

GatewayReceive ==
    \E m \in Methods, h \in HeaderSets, b \in GatewayBodies : Receive("gateway", m, h, b)

GatewayMethodGuard ==
    /\ svc = "gateway" /\ pc = "method_check"
    /\ Leave(api_gateway_method(request))
    /\ UNCHANGED <<config, svc, request, validation, scenario, image_data, analysis_result,
                   analyzerLocals, prompt, provider_reply, gatewayLocals, calls>>

GatewayValidate ==
    /\ svc = "gateway" /\ pc = "validating"
    /\ LET step == api_gateway_validate(request)
       IN /\ validation' = gateway_validate_request(request.json)
          /\ Leave(step)
          /\ scenario' = IF step.pc = "calling_analyzer"
                         THEN PyGetItem(request.json, "scenario").val ELSE scenario
          /\ image_data' = IF step.pc = "calling_analyzer"
                           THEN PyGetItem(request.json, "image_data").val ELSE image_data
    /\ calls' = [calls EXCEPT !.get_json = @ + 1, !.validate_request = @ + 1]
    /\ UNCHANGED <<config, svc, request, analysis_result, analyzerLocals, prompt,
                   provider_reply, gatewayLocals>>

GatewayCallAnalyzer ==
    /\ svc = "gateway" /\ pc = "calling_analyzer"
    /\ \E post \in (IF IMAGE_PROCESSOR_URL = "" THEN {NotCalled} ELSE Posts("data")) :
         LET called == call_image_processor(IMAGE_PROCESSOR_URL, post)
             step == api_gateway_analyzer(request, called)
         IN /\ analyzer_reply' = post
            /\ Leave(step)
            /\ analysis_result' = IF step.pc = "calling_generator"
                                  THEN called.val.analysis_result ELSE analysis_result
    /\ sent' = IF IMAGE_PROCESSOR_URL = "" THEN sent
               ELSE Append(sent, [url |-> IMAGE_PROCESSOR_URL,
                                  json |-> PyDict([image_data |-> image_data])])
    /\ calls' = [calls EXCEPT !.call_image_processor = @ + 1]
    /\ UNCHANGED <<config, svc, request, validation, scenario, image_data, analyzerLocals,
                   prompt, provider_reply, generator_reply>>

GatewayCallGenerator ==
    /\ svc = "gateway" /\ pc = "calling_generator"
    /\ \E post \in (IF MESSAGE_GENERATOR_URL = "" THEN {NotCalled} ELSE Posts("advice")) :
         LET called == call_message_generator(MESSAGE_GENERATOR_URL, post)
         IN /\ generator_reply' = post
            /\ Leave(api_gateway_generator(request, called))
    /\ sent' = IF MESSAGE_GENERATOR_URL = "" THEN sent
               ELSE Append(sent, [url |-> MESSAGE_GENERATOR_URL,
                                  json |-> PyDict([scenario |-> scenario,
                                                   analysis_result |-> analysis_result])])
    /\ calls' = [calls EXCEPT !.call_message_generator = @ + 1]
    /\ UNCHANGED <<config, svc, request, validation, scenario, image_data, analysis_result,
                   analyzerLocals, prompt, provider_reply, analyzer_reply>>

(* Analyzer *)

\* (process_image reads no header of the request)
AnalyzerReceive ==
    \E m \in Methods, b \in AnalyzerBodies : Receive("analyzer", m, NoHeaders, b)

AnalyzerMethodGuard ==
    /\ svc = "analyzer" /\ pc = "method_check"
    /\ Leave(process_image_method(request))
    /\ UNCHANGED <<config, svc, request, validation, scenario, image_data, analysis_result,
                   analyzerLocals, prompt, provider_reply, gatewayLocals, calls>>

AnalyzerValidate ==
    /\ svc = "analyzer" /\ pc = "validating"
    /\ LET step == process_image_validate(request)
           v == analyzer_validate_request(request.json)
           valid == ~v.raised /\ v.val.is_valid
       IN /\ validation' = v
          /\ Leave(step)
          /\ image_data' = IF valid THEN PyGetItem(request.json, "image_data").val
                           ELSE image_data
          /\ image_bytes' = IF step.pc = "retrieving_key"
                            THEN decode_image(PyGetItem(request.json, "image_data").val).val
                            ELSE image_bytes
          /\ calls' = [calls EXCEPT !.get_json = @ + 1, !.validate_request = @ + 1,
                                    !.decode_image = IF valid THEN @ + 1 ELSE @]
    /\ UNCHANGED <<config, svc, request, scenario, analysis_result, api_key, prompt,
                   provider_reply, gatewayLocals>>

AnalyzerGetKey ==
    /\ svc = "analyzer" /\ pc = "retrieving_key"
    /\ \E env \in Environments, sm \in SecretManagers :
         LET key == get_vision_api_key(env, sm)
         IN /\ Leave(process_image_key(key))
            /\ api_key' = IF key.raised THEN api_key ELSE key.val
    /\ calls' = [calls EXCEPT !.get_vision_api_key = @ + 1]
    /\ UNCHANGED <<config, svc, request, validation, scenario, image_data, analysis_result,
                   image_bytes, prompt, provider_reply, gatewayLocals>>

AnalyzerAnalyze ==
    /\ svc = "analyzer" /\ pc = "calling_vision"
    /\ \E vision \in Visions :
         /\ provider_reply' = vision
         /\ Leave(process_image_analyze(analyze_image(vision)))
    /\ calls' = [calls EXCEPT !.analyze_image = @ + 1]
    /\ UNCHANGED <<config, svc, request, validation, scenario, image_data, analysis_result,
                   analyzerLocals, prompt, gatewayLocals>>

(* Generator *)

\* (generate_message reads no header of the request)
GeneratorReceive ==
    \E m \in Methods, b \in GeneratorBodies : Receive("generator", m, NoHeaders, b)

GeneratorMethodGuard ==
    /\ svc = "generator" /\ pc = "method_check"
    /\ Leave(generate_message_method(request))
    /\ UNCHANGED <<config, svc, request, validation, scenario, image_data, analysis_result,
                   analyzerLocals, prompt, provider_reply, gatewayLocals, calls>>

GeneratorValidate ==
    /\ svc = "generator" /\ pc = "validating"
    /\ LET v == generator_validate_request(request.json)
           valid == ~v.raised /\ v.val.is_valid
       IN /\ validation' = v
          /\ Leave(generate_message_validate(request))
          /\ scenario' = IF valid THEN PyGetItem(request.json, "scenario").val ELSE scenario
          /\ analysis_result' = IF valid THEN PyGetItem(request.json, "analysis_result").val
                                ELSE analysis_result
    /\ calls' = [calls EXCEPT !.get_json = @ + 1, !.validate_request = @ + 1]
    /\ UNCHANGED <<config, svc, request, image_data, analyzerLocals, prompt, provider_reply,
                   gatewayLocals>>

GeneratorInitialize ==
    /\ svc = "generator" /\ pc = "initializing"
    /\ \E init \in VertexInits :
         LET made == construct_prompt(scenario, analysis_result)
             step == generate_message_prompt(init, made)
         IN /\ Leave(step)
            /\ prompt' = IF step.pc = "calling_provider" THEN PyStr(made.val) ELSE prompt
            /\ calls' = [calls EXCEPT !.initialize_vertex_ai = @ + 1,
                                      !.construct_prompt = IF init.raised THEN @ ELSE @ + 1]
    /\ UNCHANGED <<config, svc, request, validation, scenario, image_data, analysis_result,
                   analyzerLocals, provider_reply, gatewayLocals>>

GeneratorGenerate ==
    /\ svc = "generator" /\ pc = "calling_provider"
    /\ \E gemini \in Geminis :
         /\ provider_reply' = gemini
         /\ Leave(generate_message_answer(generate_advice(gemini)))
    /\ calls' = [calls EXCEPT !.generate_advice = @ + 1]
    /\ UNCHANGED <<config, svc, request, validation, scenario, image_data, analysis_result,
                   analyzerLocals, prompt, gatewayLocals>>

(* FastAPI image processor *)

\* FastAPI routes a POST /process that carries an image file to process_image
FastApiAnalyzerReceive ==
    /\ pc = "idle"
    /\ svc' = "fastapi_analyzer"
    /\ pc' = "processing"
    /\ \E image \in Uploads :
         request' = [method |-> "POST", path |-> "/process", image |-> image]
    /\ UNCHANGED <<config, validation, scenario, image_data, analysis_result,
                   analyzerLocals, prompt, provider_reply, gatewayLocals, calls,
                   response, escaped>>

\* process_image giving up the module's Vision client once the provider has failed
FastApiAnalyzerProcess_drops_client ==
    /\ svc = "fastapi_analyzer" /\ pc = "processing"
    /\ \E annotated \in (IF vision_client = PyNone THEN {NotCalled} ELSE AnnotateOutcomes) :
         /\ provider_reply' = annotated
         /\ response' = fastapi_process_image(vision_client, annotated)
         /\ vision_client' = IF annotated # NotCalled /\ annotated.raised
                             THEN PyNone ELSE vision_client
    /\ pc' = "done"
    /\ calls' = [calls EXCEPT !.annotate_image = IF vision_client = PyNone THEN @ ELSE @ + 1]
    /\ UNCHANGED <<IMAGE_PROCESSOR_URL, MESSAGE_GENERATOR_URL, gemini_available, svc, request,
                   validation, scenario, image_data, analysis_result, analyzerLocals, prompt,
                   gatewayLocals, escaped>>

FastApiAnalyzerProcess ==
    /\ svc = "fastapi_analyzer" /\ pc = "processing"
    /\ \E annotated \in (IF vision_client = PyNone THEN {NotCalled} ELSE AnnotateOutcomes) :
         /\ provider_reply' = annotated
         /\ response' = fastapi_process_image(vision_client, annotated)
    /\ pc' = "done"
    /\ calls' = [calls EXCEPT !.annotate_image = IF vision_client = PyNone THEN @ ELSE @ + 1]
    /\ UNCHANGED <<config, svc, request, validation, scenario, image_data, analysis_result,
                   analyzerLocals, prompt, gatewayLocals, escaped>>

(* FastAPI API gateway *)

\* FastAPI routes a POST /analyze that carries an image file to analyze_image
FastApiGatewayReceive ==
    /\ pc = "idle"
    /\ svc' = "fastapi_gateway"
    /\ pc' = "calling_analyzer"
    /\ \E image \in Uploads, context \in Contexts :
         request' = [method |-> "POST", path |-> "/analyze", image |-> image,
                     context |-> context]
    /\ UNCHANGED <<config, validation, scenario, image_data, analysis_result,
                   analyzerLocals, prompt, provider_reply, gatewayLocals, calls,
                   response, escaped>>

FastApiGatewayCallAnalyzer ==
    /\ svc = "fastapi_gateway" /\ pc = "calling_analyzer"
    /\ \E post \in (IF IMAGE_PROCESSOR_URL = "" THEN {HttpxNoProtocol}
                    ELSE HttpxPosts("image_analysis")) :
         LET step == fastapi_analyze_image_analyzer(post)
         IN /\ analyzer_reply' = post
            /\ Leave(step)
            /\ analysis_result' = IF step.pc = "calling_generator"
                                  THEN post.json.val ELSE analysis_result
    /\ sent' = IF IMAGE_PROCESSOR_URL = "" THEN sent
               ELSE Append(sent, [url |-> IMAGE_PROCESSOR_URL \o "/process",
                                  files |-> [image |-> request.image]])
    /\ calls' = [calls EXCEPT !.call_image_processor = @ + 1]
    /\ UNCHANGED <<config, svc, request, validation, scenario, image_data, analyzerLocals,
                   prompt, provider_reply, generator_reply>>

FastApiGatewayCallGenerator ==
    /\ svc = "fastapi_gateway" /\ pc = "calling_generator"
    /\ \E post \in (IF MESSAGE_GENERATOR_URL = "" THEN {HttpxNoProtocol}
                    ELSE HttpxPosts("advice")) :
         /\ generator_reply' = post
         /\ Leave(fastapi_analyze_image_generator(analysis_result, post))
    /\ sent' = IF MESSAGE_GENERATOR_URL = "" THEN sent
               ELSE Append(sent, [url |-> MESSAGE_GENERATOR_URL \o "/generate",
                                  json |-> PyDict([image_analysis |-> analysis_result,
                                                   context |-> request.context])])
    /\ calls' = [calls EXCEPT !.call_message_generator = @ + 1]
    /\ UNCHANGED <<config, svc, request, validation, scenario, image_data, analysis_result,
                   analyzerLocals, prompt, provider_reply, analyzer_reply>>

(* FastAPI message generator *)

\* FastAPI routes a POST /generate whose body is a GenerateRequest to generate_advice
FastApiGeneratorReceive ==
    /\ pc = "idle"
    /\ svc' = "fastapi_generator"
    /\ pc' = "generating"
    /\ \E a \in GenerateAnalyses, context \in Contexts :
         request' = [method |-> "POST", path |-> "/generate", image_analysis |-> a,
                     context |-> context]
    /\ UNCHANGED <<config, validation, scenario, image_data, analysis_result,
                   analyzerLocals, prompt, provider_reply, gatewayLocals, calls,
                   response, escaped>>

FastApiGeneratorGenerate ==
    /\ svc = "fastapi_generator" /\ pc = "generating"
    /\ LET a == request.image_analysis
           made == fastapi_construct_prompt(
                      PyGet(a, "labels", PyList(<<>>)).val,
                      PyGet(a, "objects", PyList(<<>>)).val,
                      PyGet(a, "text", PyStr("")).val,
                      PyGet(a, "properties", EmptyDict).val, request.context)
           reached == ~made.raised /\ gemini_available
       IN /\ \E generated \in (IF reached THEN FastApiGeminis ELSE {NotCalled}) :
                /\ provider_reply' = generated
                /\ response' = fastapi_generate_advice(request, gemini_available, generated)
          /\ prompt' = IF made.raised THEN prompt ELSE PyStr(made.val)
          /\ calls' = [calls EXCEPT !.construct_prompt = @ + 1,
                                    !.generate_advice = IF reached THEN @ + 1 ELSE @]
    /\ pc' = "done"
    /\ UNCHANGED <<config, svc, request, validation, scenario, image_data, analysis_result,
                   analyzerLocals, gatewayLocals, escaped>>

Next ==
    \/ GatewayReceive
    \/ GatewayMethodGuard
    \/ GatewayValidate
    \/ GatewayCallAnalyzer
    \/ GatewayCallGenerator
    \/ AnalyzerReceive
    \/ AnalyzerMethodGuard
    \/ AnalyzerValidate
    \/ AnalyzerGetKey
    \/ AnalyzerAnalyze
    \/ GeneratorReceive
    \/ GeneratorMethodGuard
    \/ GeneratorValidate
    \/ GeneratorInitialize
    \/ GeneratorGenerate
    \/ FastApiAnalyzerReceive
    \/ FastApiAnalyzerProcess
    \/ FastApiGatewayReceive
    \/ FastApiGatewayCallAnalyzer
    \/ FastApiGatewayCallGenerator
    \/ FastApiGeneratorReceive
    \/ FastApiGeneratorGenerate
    \/ Deliver

Spec == Init /\ [][Next]_vars

----------------------------------------------------------------------------
(* Vocabulary of the properties *)

\* the handler has returned a response
Answered == pc = "done" /\ response # NoResponse

\* the JSON document of the response
Body == response.data.d

\* the Gateway's validator accepted the body
GatewayValid == validation # PyNone /\ ~validation.raised /\ validation.val.is_valid

\* an upstream answered 200 with a JSON object whose success field is true
UpstreamSucceeded(reply) ==
    /\ reply.kind = "response"
    /\ reply.status_code = 200
    /\ ~reply.json.raised
    /\ reply.json.val.t = "dict"
    /\ "success" \in DOMAIN reply.json.val.d
    /\ Truthy(reply.json.val.d.success)

\* the upstream call failed in one of the three ways the Gateway maps to 502: a
\* non-2xx status, a JSON object without a true success field, a network exception
UpstreamFailed(reply) ==
    \/ reply.kind = "raise" /\ reply.exc \in {"requests.ConnectionError", "requests.Timeout"}
    \/ reply.kind = "response" /\ reply.status_code \notin 200..299
    \/ /\ reply.kind = "response"
       /\ reply.status_code = 200
       /\ ~reply.json.raised
       /\ reply.json.val.t = "dict"
       /\ ~("success" \in DOMAIN reply.json.val.d /\ Truthy(reply.json.val.d.success))

\* the error texts the failed upstream gave (none when its JSON object names no error)
UpstreamErrorTexts(reply) ==
    IF reply.kind = "raise" THEN {reply.msg}
    ELSE IF reply.status_code # 200 THEN {reply.text}
    ELSE IF "error" \in DOMAIN reply.json.val.d /\ reply.json.val.d.error.t = "str"
    THEN {reply.json.val.d.error.s}
    ELSE {}

\* the response is an error answer {success: false, error: <string>} with the status
ErrorAnswer(status) ==
    /\ Answered
    /\ response.status_code = status
    /\ response.data.t = "dict"
    /\ DOMAIN Body = {"success", "error"}
    /\ Body.success = PyBool(FALSE)
    /\ Body.error.t = "str"

\* no upstream service and no provider was called, and none was sent a request
NoUpstreamCall ==
    /\ calls.call_image_processor = 0 /\ calls.call_message_generator = 0
    /\ calls.get_vision_api_key = 0 /\ calls.analyze_image = 0
    /\ calls.initialize_vertex_ai = 0 /\ calls.generate_advice = 0
    /\ sent = <<>>
    /\ analyzer_reply = NotCalled /\ generator_reply = NotCalled
    /\ provider_reply = NotCalled

\* the response carries the four CORS headers, the origin being the request's or "*"
CorsHeadersSet ==
    /\ {"Access-Control-Allow-Origin", "Access-Control-Allow-Methods",
        "Access-Control-Allow-Headers", "Access-Control-Allow-Credentials"}
          \subseteq DOMAIN response.headers
    /\ response.headers["Access-Control-Allow-Origin"] =
          (IF "Origin" \in DOMAIN request.headers THEN request.headers["Origin"] ELSE "*")
    /\ response.headers["Access-Control-Allow-Methods"] = "POST, OPTIONS"
    /\ response.headers["Access-Control-Allow-Headers"] = "Content-Type, Authorization"
    /\ response.headers["Access-Control-Allow-Credentials"] = "true"

----------------------------------------------------------------------------
(* Properties *)

\* C1: a Gateway POST whose body is valid and whose Analyzer and Generator calls both
\* succeed is answered 200 with exactly {success: true, advice: A}, A being the
\* advice of the Generator's answer, unchanged.
C1_SuccessAnswer ==
    (/\ svc = "gateway" /\ pc = "done"
     /\ request.method = "POST" /\ GatewayValid
     /\ UpstreamSucceeded(analyzer_reply)
     /\ UpstreamSucceeded(generator_reply))
    => /\ Answered
       /\ response.status_code = 200
       /\ response.data =
            PyDict([success |-> PyBool(TRUE),
                    advice |-> IF "advice" \in DOMAIN generator_reply.json.val.d
                               THEN generator_reply.json.val.d.advice ELSE PyStr("")])

C1_Witness ==
    /\ svc = "gateway" /\ pc = "done" /\ GatewayValid
    /\ UpstreamSucceeded(analyzer_reply) /\ UpstreamSucceeded(generator_reply)
    /\ "advice" \in DOMAIN generator_reply.json.val.d
    /\ generator_reply.json.val.d.advice = PyStr("text1")
    /\ response.status_code = 200

\* C2: within one request the Gateway only moves validating -> calling_analyzer ->
\* calling_generator -> done (leaving early to done from any of them); it calls the
\* Analyzer at most once and the Generator at most once, sends each at most one HTTP
\* request, and calls the Generator only after the Analyzer call returned success.
C2_OrchestrationOrder ==
    [][svc' = "gateway" =>
        /\ <<pc, pc'>> \in {<<"idle", "method_check">>,
                            <<"method_check", "validating">>, <<"method_check", "done">>,
                            <<"validating", "calling_analyzer">>, <<"validating", "done">>,
                            <<"calling_analyzer", "calling_generator">>,
                            <<"calling_analyzer", "done">>,
                            <<"calling_generator", "done">>}
        /\ calls'.call_image_processor <= 1
        /\ calls'.call_message_generator <= 1
        /\ Cardinality({i \in 1..Len(sent') : sent'[i].url = IMAGE_PROCESSOR_URL}) <= 1
        /\ Cardinality({i \in 1..Len(sent') : sent'[i].url = MESSAGE_GENERATOR_URL}) <= 1
        /\ (pc' = "calling_generator" \/ calls'.call_message_generator = 1)
              => /\ calls'.call_image_processor = 1
                 /\ UpstreamSucceeded(analyzer_reply')
                 /\ sent'[1].url = IMAGE_PROCESSOR_URL
    ]_vars

C2_Witness ==
    /\ svc = "gateway" /\ pc = "done"
    /\ calls.call_image_processor = 1 /\ calls.call_message_generator = 1
    /\ Len(sent) = 2

\* C3: whenever the Analyzer call fails (non-2xx status, success:false body, network
\* exception) the Gateway answers 502 with success:false and an error string that
\* carries the upstream error text, and the Generator is never called.
C3_AnalyzerFailure ==
    (svc = "gateway" /\ UpstreamFailed(analyzer_reply))
    => /\ ErrorAnswer(502)
       /\ \A t \in UpstreamErrorTexts(analyzer_reply) : IsSubstring(t, Body.error.s)
       /\ calls.call_message_generator = 0
       /\ generator_reply = NotCalled
       /\ Len(sent) = 1

C3_Witness ==
    /\ svc = "gateway" /\ pc = "done"
    /\ analyzer_reply.kind = "raise" /\ analyzer_reply.exc = "requests.Timeout"
    /\ response.status_code = 502
    /\ IsSubstring(analyzer_reply.msg, Body.error.s)

\* C4: whenever the Analyzer call succeeded and the Generator call fails (non-2xx
\* status, success:false body, network exception) the Gateway answers 502 with
\* success:false and an error string that carries the upstream error text.
C4_GeneratorFailure ==
    (svc = "gateway" /\ UpstreamSucceeded(analyzer_reply) /\ UpstreamFailed(generator_reply))
    => /\ ErrorAnswer(502)
       /\ \A t \in UpstreamErrorTexts(generator_reply) : IsSubstring(t, Body.error.s)

C4_Witness ==
    /\ svc = "gateway" /\ pc = "done"
    /\ UpstreamSucceeded(analyzer_reply)
    /\ generator_reply.kind = "response" /\ generator_reply.status_code = 200
    /\ UpstreamFailed(generator_reply)
    /\ UpstreamErrorTexts(generator_reply) = {"text2"}
    /\ response.status_code = 502

\* C5: a Gateway POST whose body validate_request rejects is answered 400 with
\* success:false and the validator's message as error, and neither the Analyzer nor
\* the Generator is called.
C5_ValidationFailure ==
    (svc = "gateway" /\ validation # PyNone /\ ~validation.raised /\ ~validation.val.is_valid)
    => /\ request.method = "POST"
       /\ ErrorAnswer(400)
       /\ Body.error = validation.val.error_message
       /\ NoUpstreamCall

C5_Witness ==
    /\ svc = "gateway" /\ pc = "done"
    /\ request.json = PyDict([scenario |-> PyStr("garden"), image_data |-> PyStr("aGk=")])
    /\ response.status_code = 400

\* C6: every Gateway OPTIONS request, whatever its body, is answered 204 with the CORS
\* headers set and nothing else done: the body is not read or validated and no
\* upstream call is made.
C6_Preflight ==
    (svc = "gateway" /\ request.method = "OPTIONS" /\ pc # "method_check")
    => /\ Answered
       /\ response.status_code = 204
       /\ response.data = PyStr("")
       /\ CorsHeadersSet
       /\ calls = NoCalls
       /\ validation = PyNone
       /\ NoUpstreamCall

C6_Witness ==
    /\ svc = "gateway" /\ pc = "done" /\ request.method = "OPTIONS"
    /\ request.json = PyDict([scenario |-> PyStr("plant"), image_data |-> PyStr("aGk=")])
    /\ response.status_code = 204

\* C7: the method guard.  A Gateway request that is neither POST nor OPTIONS, and an
\* Analyzer or Generator request that is not POST, is answered 405 with success:false
\* and the error 'Only POST requests are supported', without reading the body and
\* without any upstream or provider call.
C7_MethodGuard ==
    (/\ pc # "method_check"
     /\ \/ svc = "gateway" /\ request.method \notin {"POST", "OPTIONS"}
        \/ svc \in {"analyzer", "generator"} /\ request.method # "POST")
    => /\ Answered
       /\ response.status_code = 405
       /\ response.data.t = "dict"
       /\ Body.success = PyBool(FALSE)
       /\ Body.error = PyStr("Only POST requests are supported")
       /\ calls = NoCalls
       /\ validation = PyNone
       /\ NoUpstreamCall

C7_Witness ==
    /\ svc = "analyzer" /\ pc = "done" /\ request.method = "OPTIONS"
    /\ request.json = PyDict([image_data |-> PyStr("YQ==")])
    /\ response.status_code = 405

\* C8: every response the Gateway returns, on every path, carries the CORS headers:
\* Access-Control-Allow-Origin equal to the request's Origin header, or '*' without
\* one, and the fixed allow-methods, allow-headers and allow-credentials values; and
\* handle_cors leaves the status code and the body of what it wraps unchanged.
C8_CorsInvariant ==
    (svc = "gateway" /\ pc = "done")
    => /\ Answered
       /\ CorsHeadersSet
       /\ response.status_code \in {204, 405, 400, 502, 500, 200}
       /\ LET inner == IF response.data.t = "dict" THEN jsonify(Body)
                       ELSE make_response(response.data)
              wrapped == handle_cors(request, RespTuple(inner, response.status_code))
              bare == handle_cors(request, RespBare(inner))
          IN  /\ wrapped.status_code = response.status_code
              /\ wrapped.data = response.data
              /\ bare.status_code = inner.status_code
              /\ bare.data = response.data

C8_Witness ==
    /\ svc = "gateway" /\ pc = "done"
    /\ "Origin" \in DOMAIN request.headers
    /\ response.status_code = 502
    /\ response.headers["Access-Control-Allow-Origin"] = "http://localhost:5173"

\* the exception of the Gateway request that no helper maps to a 400 or a 502 result
\* (a set: empty when there is none)
GatewayUnmapped ==
    LET thrown(reply) ==
            IF reply.kind = "raise"
            THEN IF IsRequestException(reply.exc) THEN {} ELSE {reply.msg}
            ELSE IF reply.kind # "response" \/ reply.status_code # 200 THEN {}
            ELSE IF reply.json.raised
            THEN IF IsRequestException(reply.json.exc) THEN {} ELSE {reply.json.msg}
            ELSE IF reply.json.val.t # "dict"
            THEN {"'" \o reply.json.val.t \o "' object has no attribute 'get'"}
            ELSE {}
    IN  (IF validation # PyNone /\ validation.raised THEN {validation.msg} ELSE {})
            \cup thrown(analyzer_reply) \cup thrown(generator_reply)

\* C9: an exception raised while the Gateway handles a POST (in validation or in
\* either upstream call) that is not mapped to a 400 or 502 result is answered 500
\* with success:false and error 'Internal server error: <message>'; no exception
\* leaves api_gateway.
C9_InternalError ==
    svc = "gateway"
    => /\ escaped = PyNone
       /\ \A msg \in GatewayUnmapped :
            /\ ErrorAnswer(500)
            /\ Body.error = PyStr("Internal server error: " \o msg)

C9_Witness ==
    /\ svc = "gateway" /\ pc = "done"
    /\ validation # PyNone /\ validation.raised
    /\ response.status_code = 500
    /\ Body.error = PyStr("Internal server error: " \o validation.msg)

\* the required fields of each service's validator, in the order it checks them
RequiredFields ==
    [gateway |-> <<"scenario", "image_data">>,
     analyzer |-> <<"image_data">>,
     generator |-> <<"scenario", "analysis_result">>]

\* the body is a JSON object that lacks a required field of the service
MissesRequiredField ==
    /\ svc \in DOMAIN RequiredFields
    /\ validation # PyNone
    /\ request.json.t = "dict"
    /\ \E i \in 1..Len(RequiredFields[svc]) : RequiredFields[svc][i] \notin DOMAIN request.json.d

\* the first required field, in check order, that the body lacks
FirstMissing ==
    LET fields == RequiredFields[svc]
        i == CHOOSE i \in 1..Len(fields) :
                /\ fields[i] \notin DOMAIN request.json.d
                /\ \A j \in 1..(i - 1) : fields[j] \in DOMAIN request.json.d
    IN  fields[i]

\* every required field checked before the first missing one holds an allowed value
\* (the only such field is scenario)
EarlierFieldsPass ==
    (FirstMissing # "scenario" /\ "scenario" \in DOMAIN request.json.d)
        => InStrList(request.json.d.scenario,
                     IF svc = "generator" THEN PROMPT_TEMPLATES_keys ELSE VALID_SCENARIOS)

Services == {"gateway", "analyzer", "generator"}

\* the parsed body is absent (None) or empty: an object, array or string with nothing
\* in it
EmptyOrAbsentBody == request.json \in {PyNone, EmptyDict, PyList(<<>>), PyStr("")}

AbsentOrMapping == request.json = PyNone \/ request.json.t = "dict"

\* C12: for every parsed body that is absent or a mapping from strings to JSON values,
\* validate_request of each service returns a pair, (True, None) or (False, a non-empty
\* message), and never raises.
C12_ValidatorTotal ==
    (svc \in Services /\ validation # PyNone /\ AbsentOrMapping)
    => /\ ~validation.raised
       /\ \/ validation.val = Verdict(TRUE, PyNone)
          \/ /\ validation.val.is_valid = FALSE
             /\ validation.val.error_message.t = "str"
             /\ validation.val.error_message.s # ""

\* every label and every object of the analysis result d has a score of at least 0.6
ScoresPassThreshold(d) ==
    /\ \A i \in 1..Len(d.labels.items) :
            d.labels.items[i].d.score.milli >= MIN_CONFIDENCE_SCORE
    /\ \A i \in 1..Len(d.objects.items) :
            d.objects.items[i].d.score.milli >= MIN_CONFIDENCE_SCORE

\* C13: whatever the provider answers, no label and no object of the analysis result
\* that either Analyzer implementation returns (the Cloud Function's process_image,
\* the FastAPI process_image) has a score below 0.6.
C13_ConfidenceThreshold ==
    /\ (svc = "analyzer" /\ Answered /\ response.status_code = 200)
            => ScoresPassThreshold(Body.data.d)
    /\ (svc = "fastapi_analyzer" /\ Answered /\ response.status_code = 200)
            => ScoresPassThreshold(Body)

\* the text of s after the last occurrence of sep (s itself when sep does not occur)
AfterLast(s, sep) ==
    LET starts == {i \in 1..(Len(s) - Len(sep) + 1) : SubSeq(s, i, i + Len(sep) - 1) = sep}
    IN  IF starts = {} THEN s
        ELSE SubSeq(s, (CHOOSE i \in starts : \A j \in starts : j <= i) + Len(sep), Len(s))

\* p is valid base64: a whole number of quads of alphabet characters, the last quad
\* ending in at most two '='
ValidBase64(p) ==
    /\ Len(p) % 4 = 0
    /\ \A i \in 1..Len(p) :
          \/ B64Value(SubSeq(p, i, i)) < 64
          \/ /\ SubSeq(p, i, i) = "="
             /\ i >= Len(p) - 1
             /\ \A j \in (i + 1)..Len(p) : SubSeq(p, j, j) = "="

\* C14: for every valid base64 payload P and every prefix that ends in 'base64,',
\* decode_image(prefix + P) equals decode_image(P), which is the base64 decoding of P.
C14_PrefixEquivalence ==
    (/\ svc = "analyzer" /\ calls.decode_image = 1
     /\ image_data.t = "str"
     /\ ValidBase64(AfterLast(image_data.s, "base64,")))
    => LET P == PyStr(AfterLast(image_data.s, "base64,"))
       IN  /\ decode_image(P) = b64decode(P)
           /\ ~decode_image(image_data).raised
           /\ decode_image(image_data) = decode_image(P)
           /\ image_bytes = b64decode(P).val

\* the image data of the request is not valid base64, once a prefix ending in
\* 'base64,' is stripped
InvalidImageData ==
    image_data.t # "str" \/ ~ValidBase64(AfterLast(image_data.s, "base64,"))

\* C15: for every image data that is not valid base64 (after the optional prefix is
\* stripped) decode_image raises ValueError, and process_image answers 400 with
\* success:false without retrieving the API key or calling the vision provider.
C15_DecodeRejection ==
    (svc = "analyzer" /\ calls.decode_image = 1 /\ InvalidImageData)
    => /\ decode_image(image_data).raised
       /\ decode_image(image_data).exc = "ValueError"
       /\ Answered
       /\ response.status_code = 400
       /\ Body.success = PyBool(FALSE)
       /\ calls.get_vision_api_key = 0
       /\ calls.analyze_image = 0
       /\ provider_reply = NotCalled

\* process_image returned because get_vision_api_key raised
KeyRetrievalFailed ==
    svc = "analyzer" /\ pc = "done" /\ calls.get_vision_api_key = 1 /\ calls.analyze_image = 0

\* process_image returned because analyze_image (the vision provider) raised
VisionFailed ==
    svc = "analyzer" /\ pc = "done" /\ calls.analyze_image = 1
        /\ analyze_image(provider_reply).raised

\* C16: for an Analyzer POST with a valid, decodable image, every failure of the API-key
\* retrieval (a missing project identifier included) and every failure of the vision
\* provider call is answered 500 with success:false, data null and the exception
\* message in the error; 400 is answered only for malformed input.
C16_AnalyzerFailure ==
    /\ (~InvalidImageData /\ (KeyRetrievalFailed \/ VisionFailed))
        => /\ Answered
           /\ response.status_code = 500
           /\ Body.success = PyBool(FALSE)
           /\ Body.data = PyNone
           /\ Body.error.t = "str"
           /\ SubSeq(Body.error.s, 1, Len("Internal server error: "))
                = "Internal server error: "
    /\ (~InvalidImageData /\ VisionFailed)
        => IsSubstring(analyze_image(provider_reply).msg, Body.error.s)
    /\ (svc = "analyzer" /\ Answered /\ response.status_code = 400)
        => calls.get_vision_api_key = 0

\* items is a list of JSON objects that each hold a string under name and a float score
WellFormedItems(items, name) ==
    /\ items.t = "list"
    /\ \A i \in 1..Len(items.items) :
          /\ items.items[i].t = "dict"
          /\ {name, "score"} \subseteq DOMAIN items.items[i].d
          /\ items.items[i].d[name].t = "str"
          /\ items.items[i].d.score.t = "float"

\* a is an AnalysisResult: labels, objects and text of the declared types, each
\* possibly absent
WellFormedAnalysis(a) ==
    /\ a.t = "dict"
    /\ "labels" \in DOMAIN a.d => WellFormedItems(a.d.labels, "description")
    /\ "objects" \in DOMAIN a.d => WellFormedItems(a.d.objects, "name")
    /\ "text" \in DOMAIN a.d => a.d.text.t = "str"

\* the items of the analysis result under key, each shown as "<name> (<score>)", joined
\* by ", " in input order ("" when there is none)
JoinedItems(a, key, name) ==
    IF key \notin DOMAIN a.d THEN ""
    ELSE Join(", ", [i \in 1..Len(a.d[key].items) |->
                        a.d[key].items[i].d[name].s \o " ("
                            \o FormatFloat2(a.d[key].items[i].d.score).val \o ")"])

\* the Generator request holds both fields construct_prompt is applied to
HoldsGeneratorFields ==
    /\ svc = "generator"
    /\ request.json.t = "dict"
    /\ {"scenario", "analysis_result"} \subseteq DOMAIN request.json.d

\* C17: construct_prompt fails for every scenario outside the known set; for every
\* known scenario and every analysis result it returns a prompt that contains the
\* scenario's expert-role preamble and every label and every object of the analysis
\* result, comma-joined in input order, and the detected text when it is not empty.
C17_ConstructPrompt ==
    HoldsGeneratorFields
    => LET scen == request.json.d.scenario
           a == request.json.d.analysis_result
           made == construct_prompt(scen, a)
       IN  /\ ~InStrList(scen, PROMPT_TEMPLATES_keys) => made.raised
           /\ (InStrList(scen, PROMPT_TEMPLATES_keys) /\ WellFormedAnalysis(a))
                => /\ ~made.raised
                   /\ IsSubstring(Preamble(scen.s), made.val)
                   /\ \A k \in 1..Len(PROMPT_TEMPLATES_keys) :
                        IsSubstring(Preamble(PROMPT_TEMPLATES_keys[k]), made.val)
                            => PROMPT_TEMPLATES_keys[k] = scen.s
                   /\ IsSubstring(JoinedItems(a, "labels", "description"), made.val)
                   /\ IsSubstring(JoinedItems(a, "objects", "name"), made.val)
                   /\ ("text" \in DOMAIN a.d /\ a.d.text.s # "")
                        => IsSubstring(a.d.text.s, made.val)
                   /\ prompt # PyNone => prompt = PyStr(made.val)

C17_Witness ==
    /\ svc = "generator" /\ pc = "calling_provider"
    /\ scenario = PyStr("closet")
    /\ analysis_result = TwoItemAnalysis
    /\ prompt # PyNone
    /\ IsSubstring("Plant (0.95), Leaf (0.60)", prompt.s)
    /\ IsSubstring("Flower pot (0.80), Shelf (0.75)", prompt.s)

\* generate_message has called generate_advice, the provider doing provider_reply
AdviceGenerated == svc = "generator" /\ calls.generate_advice = 1

\* C18: whatever exception the generative-text provider raises, generate_advice does
\* not raise and returns (False, DEFAULT_ADVICE, a non-empty error that contains the
\* exception message); when the provider succeeds it returns (True, provider text, None).
C18_GenerateAdvice ==
    AdviceGenerated
    => LET r == generate_advice(provider_reply)
       IN  /\ escaped = PyNone
           /\ Answered
           /\ Body = GeneratorBody(r.success, r.advice, r.error)
           /\ provider_reply.raised
                => /\ r.success = FALSE
                   /\ r.advice = PyStr(DEFAULT_ADVICE)
                   /\ r.error.t = "str" /\ r.error.s # ""
                   /\ IsSubstring(provider_reply.msg, r.error.s)
           /\ ~provider_reply.raised
                => r = GeneratorResult(TRUE, provider_reply.val, PyNone)

C18_Witness ==
    /\ AdviceGenerated /\ pc = "done"
    /\ provider_reply = Raise("ResourceExhausted", "429 quota exceeded")
    /\ Body.advice = PyStr(DEFAULT_ADVICE)
    /\ Body.error = PyStr("Error generating advice: 429 quota exceeded")

\* msg contains the word 'safety', each letter in either case
MentionsSafety(msg) ==
    LET lower == "safety"
        upper == "SAFETY"
    IN  \E i \in 1..(Len(msg) - 5) :
            \A k \in 1..6 :
                SubSeq(msg, i + k - 1, i + k - 1)
                    \in {SubSeq(lower, k, k), SubSeq(upper, k, k)}

\* C19: on a provider failure the error is 'Content blocked due to safety settings:
\* <message>' if and only if the exception message contains 'safety' in any letter
\* case, and 'Error generating advice: <message>' otherwise; success, advice and the
\* HTTP status are the same in both cases.
C19_ErrorClassification ==
    (AdviceGenerated /\ provider_reply.raised)
    => /\ Answered
       /\ Body.error =
            PyStr((IF MentionsSafety(provider_reply.msg)
                   THEN "Content blocked due to safety settings: "
                   ELSE "Error generating advice: ") \o provider_reply.msg)
       /\ Body.success = PyBool(FALSE)
       /\ Body.advice = PyStr(DEFAULT_ADVICE)
       /\ response.status_code = 200

C19_Witness ==
    /\ AdviceGenerated /\ pc = "done"
    /\ provider_reply.raised
    /\ provider_reply.msg = "Response blocked by SAFETY filters"
    /\ Body.error =
         PyStr("Content blocked due to safety settings: Response blocked by SAFETY filters")

\* C20 as stated: when the generative-text call fails the Generator answers 500, except
\* for a safety-filter block, which it answers 200 with success:false and the default
\* advice.
C20_ProviderError500 ==
    (AdviceGenerated /\ provider_reply.raised)
    => /\ Answered
       /\ IF MentionsSafety(provider_reply.msg)
          THEN /\ response.status_code = 200
               /\ Body.success = PyBool(FALSE)
               /\ Body.advice = PyStr(DEFAULT_ADVICE)
          ELSE response.status_code = 500

\* C20 amended: when the generative-text call fails, the Generator answers 200 with
\* success:false, the default advice and a non-empty error, whether or not the failure
\* is a safety-filter block; it answers 500 only when no call to generate_advice was
\* made.
C20_ProviderErrorStatus ==
    /\ (AdviceGenerated /\ provider_reply.raised)
        => /\ Answered
           /\ response.status_code = 200
           /\ DOMAIN Body = {"success", "advice", "error"}
           /\ Body.success = PyBool(FALSE)
           /\ Body.advice = PyStr(DEFAULT_ADVICE)
           /\ Body.error.t = "str" /\ Body.error.s # ""
    /\ (svc = "generator" /\ Answered /\ response.status_code = 500)
        => calls.generate_advice = 0

C20_Witness ==
    /\ AdviceGenerated /\ pc = "done"
    /\ provider_reply.raised
    /\ ~MentionsSafety(provider_reply.msg)
    /\ response.status_code = 200
    /\ Body.success = PyBool(FALSE)

\* generate_message returned because get_credentials or initialize_vertex_ai raised
InitializationFailed ==
    /\ svc = "generator" /\ pc = "done"
    /\ calls.initialize_vertex_ai = 1 /\ calls.construct_prompt = 0

\* C21: for a valid Generator POST, whatever exception credential retrieval or Vertex AI
\* initialization raises, the answer is 500 with success:false, advice equal to
\* DEFAULT_ADVICE and an error that contains the exception message, and the provider
\* is not called.
C21_InitializationFailure ==
    InitializationFailed
    => /\ Answered
       /\ response.status_code = 500
       /\ Body.success = PyBool(FALSE)
       /\ Body.advice = PyStr(DEFAULT_ADVICE)
       /\ Body.error.t = "str"
       /\ \E init \in VertexInits : init.raised /\ IsSubstring(init.msg, Body.error.s)
       /\ calls.generate_advice = 0
       /\ provider_reply = NotCalled

\* the Gateway reached the call of an upstream whose URL is not configured
AnalyzerUrlMissing ==
    svc = "gateway" /\ pc = "done" /\ GatewayValid /\ IMAGE_PROCESSOR_URL = ""
GeneratorUrlMissing ==
    /\ svc = "gateway" /\ pc = "done" /\ GatewayValid
    /\ UpstreamSucceeded(analyzer_reply) /\ MESSAGE_GENERATOR_URL = ""

\* C22: when a required upstream URL (IMAGE_PROCESSOR_URL or MESSAGE_GENERATOR_URL) is
\* not configured, a valid Gateway POST is answered 500 at call time and no HTTP
\* request is sent to that upstream.
C22_ConfigurationError ==
    /\ AnalyzerUrlMissing
        => /\ ErrorAnswer(500)
           /\ sent = <<>>
           /\ analyzer_reply = NotCalled
    /\ GeneratorUrlMissing
        => /\ ErrorAnswer(500)
           /\ \A i \in 1..Len(sent) : sent[i].url # MESSAGE_GENERATOR_URL
           /\ generator_reply = NotCalled


\* the Gateway's request to an upstream raised instead of returning a response
SendRaised(reply) == reply # NotCalled /\ reply.kind = "raise"

\* C24: whatever exception is raised while the HTTP request is sent to the upstream,
\* call_image_processor returns (False, {}, "Error communicating with image
\* processor: ...") and call_message_generator returns (False, "", "Error
\* communicating with message generator: ..."); neither helper raises.
C24_HelpersCatchAll ==
    /\ svc = "gateway" /\ SendRaised(analyzer_reply)
        => LET r == call_image_processor(IMAGE_PROCESSOR_URL, analyzer_reply) IN
           /\ ~r.raised
           /\ r.val = AnalyzerResult(FALSE, EmptyDict,
                        PyStr("Error communicating with image processor: "
                              \o analyzer_reply.msg))
    /\ svc = "gateway" /\ SendRaised(generator_reply)
        => LET r == call_message_generator(MESSAGE_GENERATOR_URL, generator_reply) IN
           /\ ~r.raised
           /\ r.val = GeneratorResult(FALSE, PyStr(""),
                        PyStr("Error communicating with message generator: "
                              \o generator_reply.msg))


\* the FastAPI Analyzer answered a POST /process while its module has no vision client
FallbackAnswered ==
    svc = "fastapi_analyzer" /\ pc = "done" /\ vision_client = PyNone

\* C25: when the vision client failed to initialize at process start, every POST
\* /process of the FastAPI Analyzer is answered 200 with the same fixed mock analysis
\* result whatever image was uploaded, its derived properties are environment_type
\* 'kitchen', cleanliness_level 'clean' and organization_level 'minimal', and the
\* provider is never called.
C25_AnalyzerFallback ==
    FallbackAnswered
        => /\ response.status_code = 200
           /\ Body.labels = PyList([i \in 1..Len(MockLabels) |-> fastapi_label(MockLabels[i])])
           /\ Body.objects =
                PyList([i \in 1..Len(MockObjects) |-> fastapi_object(MockObjects[i])])
           /\ Body.text = PyStr(MockText)
           /\ Body.colors = PyList([i \in 1..Len(MockColors) |-> fastapi_color(MockColors[i])])
           /\ Body.properties = PyDict([environment_type |-> PyStr("kitchen"),
                                        cleanliness_level |-> PyStr("clean"),
                                        organization_level |-> PyStr("minimal")])
           /\ provider_reply = NotCalled
           /\ calls.annotate_image = 0

C25_Witness ==
    /\ FallbackAnswered
    /\ request.image # <<>>
    /\ response.status_code = 200
    /\ Body.properties.d.environment_type = PyStr("kitchen")


\* an upstream answered with a 2xx status and a JSON object whose success field is true
AnsweredSuccess2xx(reply) ==
    /\ reply # NotCalled
    /\ reply.kind = "response"
    /\ reply.status_code \in 200..299
    /\ ~reply.json.raised
    /\ reply.json.val.t = "dict"
    /\ "success" \in DOMAIN reply.json.val.d
    /\ Truthy(reply.json.val.d.success)

\* C26: the Gateway treats an upstream response as a failure only when its status is
\* non-2xx, its body has success false (or no success field) or a network exception
\* occurred: a response with any 2xx status and success true is accepted, so the
\* Gateway goes on to the Generator after such an Analyzer answer and answers 200
\* after such a Generator answer.
C26_SuccessCriterion ==
    /\ (svc = "gateway" /\ pc = "done" /\ AnsweredSuccess2xx(analyzer_reply))
        => /\ ~call_image_processor(IMAGE_PROCESSOR_URL, analyzer_reply).raised
           /\ call_image_processor(IMAGE_PROCESSOR_URL, analyzer_reply).val.success
           /\ calls.call_message_generator = 1
    /\ (svc = "gateway" /\ pc = "done" /\ AnsweredSuccess2xx(generator_reply))
        => /\ ~call_message_generator(MESSAGE_GENERATOR_URL, generator_reply).raised
           /\ call_message_generator(MESSAGE_GENERATOR_URL, generator_reply).val.success
           /\ Answered /\ response.status_code = 200


\* the scenario of the request being served, PyNone when the body holds none
RequestedScenario ==
    IF request # NoRequest /\ request.json.t = "dict" /\ "scenario" \in DOMAIN request.json.d
    THEN request.json.d.scenario ELSE PyNone

\* the Generator's validator accepts the scenario when it comes with an analysis result
GeneratorAcceptsScenario(scen) ==
    generator_validate_request(PyDict([scenario |-> scen, analysis_result |-> SampleAnalysis]))
        = Ret(Verdict(TRUE, PyNone))

\* construct_prompt refuses the scenario as invalid
InvalidScenario(made) ==
    made.raised /\ made.exc = "ValueError" /\ IsSubstring("Invalid scenario", made.msg)

\* C28: the Gateway validator, the Generator validator and construct_prompt accept the
\* same scenarios: a scenario that passes Gateway validation is accepted by the
\* Generator's validator and by construct_prompt, a scenario the Generator's validator
\* accepts is one of the Gateway's, and once validate_request has passed in
\* generate_message construct_prompt never fails with 'Invalid scenario'.
C28_ScenarioSetsAgree ==
    /\ (svc = "gateway" /\ GatewayValid)
        => /\ InStrList(RequestedScenario, VALID_SCENARIOS)
           /\ GeneratorAcceptsScenario(RequestedScenario)
           /\ ~InvalidScenario(construct_prompt(RequestedScenario, SampleAnalysis))
    /\ (svc = "generator" /\ validation # PyNone /\ ~validation.raised
            /\ validation.val.is_valid)
        => /\ InStrList(scenario, VALID_SCENARIOS)
           /\ ~InvalidScenario(construct_prompt(scenario, analysis_result))
    /\ (svc = "generator" /\ pc = "done" /\ calls.construct_prompt = 1 /\ Answered)
        => ~("error" \in DOMAIN Body /\ Body.error.t = "str"
                /\ IsSubstring("Invalid scenario", Body.error.s))

\* the Gateway forwarded the fridge scenario to the Generator
C28_Witness ==
    /\ svc = "gateway" /\ GatewayValid /\ pc = "done"
    /\ RequestedScenario = PyStr("fridge")
    /\ calls.call_message_generator = 1
    /\ Len(sent) = 2 /\ sent[2].json.d.scenario = PyStr("fridge")


\* the Generator answered the Gateway as generate_message does when its provider call
\* failed: 200, success false, the default advice and an error
GeneratorGaveDefaultAdvice ==
    /\ svc = "gateway" /\ pc = "done"
    /\ generator_reply # NotCalled
    /\ generator_reply.kind = "response"
    /\ generator_reply.status_code = 200
    /\ ~generator_reply.json.raised
    /\ generator_reply.json.val.t = "dict"
    /\ DOMAIN generator_reply.json.val.d = {"success", "advice", "error"}
    /\ generator_reply.json.val.d.success = PyBool(FALSE)
    /\ generator_reply.json.val.d.advice = PyStr(DEFAULT_ADVICE)

\* C29: a Gateway response holds an advice field if and only if its status is 200 and
\* its success is true; when the Generator answers 200 with success:false and the
\* default advice the Gateway answers 502 with only success:false and an error, so the
\* default advice text does not reach the Gateway's caller.
C29_AdviceOnlyOnSuccess ==
    /\ (svc = "gateway" /\ Answered)
        => (/\ response.data.t = "dict"
            /\ "advice" \in DOMAIN Body)
           <=> (/\ response.status_code = 200
                /\ response.data.t = "dict"
                /\ "success" \in DOMAIN Body
                /\ Body.success = PyBool(TRUE))
    /\ GeneratorGaveDefaultAdvice
        => /\ ErrorAnswer(502)
           /\ DOMAIN Body = {"success", "error"}
           /\ ~IsSubstring(DEFAULT_ADVICE, Body.error.s)

C29_Witness ==
    /\ GeneratorGaveDefaultAdvice
    /\ Answered
    /\ response.status_code = 502


\* the FastAPI gateway's request to a service failed with a network error
NetworkError(reply) ==
    reply # NotCalled /\ reply.kind = "raise" /\ IsHttpxRequestError(reply.exc)

\* the FastAPI gateway finished a POST /analyze during which a call failed that way
NetworkErrorServed ==
    /\ svc = "fastapi_gateway" /\ pc = "done"
    /\ NetworkError(analyzer_reply) \/ NetworkError(generator_reply)

\* C27 as claimed: a network error while the FastAPI gateway calls the Analyzer or the
\* Generator is answered with status 502, never with a 200 response that carries advice.
C27_NetworkError502 ==
    NetworkErrorServed
        => /\ Answered
           /\ response.status_code = 502
           /\ ~(response.status_code = 200 /\ "advice" \in DOMAIN Body)

\* C27: a network error (an httpx.RequestError) while the FastAPI gateway calls the
\* Analyzer or the Generator is answered 200 with the fixed mock advice and the fixed
\* mock image analysis, never with an error status.
C27_NetworkErrorMock ==
    NetworkErrorServed
        => /\ Answered
           /\ response.status_code = 200
           /\ Body = [advice |-> PyStr(MOCK_ADVICE), image_analysis |-> MOCK_IMAGE_ANALYSIS]

C27_Witness ==
    /\ NetworkErrorServed
    /\ analyzer_reply.kind = "response" /\ analysis_result = FastApiAnalysis
    /\ generator_reply.exc = "httpx.ReadTimeout"
    /\ response.status_code = 200

\* a service answered the FastAPI gateway with a status that is not 200
AnsweredNon200(reply) ==
    reply # NotCalled /\ reply.kind = "response" /\ reply.status_code # 200

\* C30: when the Analyzer or the Generator answers the FastAPI gateway with a non-200
\* status S, the gateway's own response to the client has status S.
C30_StatusPropagated ==
    /\ (svc = "fastapi_gateway" /\ pc = "done" /\ AnsweredNon200(analyzer_reply))
        => Answered /\ response.status_code = analyzer_reply.status_code
    /\ (svc = "fastapi_gateway" /\ pc = "done" /\ AnsweredNon200(generator_reply))
        => Answered /\ response.status_code = generator_reply.status_code


\* nothing of an earlier invocation is left: every request-scoped variable holds the
\* value it has before the first request
FrameCleared ==
    /\ svc = "none"
    /\ request = NoRequest
    /\ validation = PyNone
    /\ scenario = PyNone
    /\ image_data = PyNone
    /\ analysis_result = PyNone
    /\ image_bytes = PyNone
    /\ api_key = PyNone
    /\ prompt = PyNone
    /\ provider_reply = NotCalled
    /\ analyzer_reply = NotCalled
    /\ generator_reply = NotCalled
    /\ calls = NoCalls
    /\ sent = <<>>
    /\ response = NoResponse
    /\ escaped = PyNone

====
